---------------------------- MODULE Spec2Model ----------------------------
(* A model of jrudder/libconfig: Parser.Get walks a record, extracts the  *)
(* tag of every field (parseTag), resolves tagged fields through the      *)
(* lookup function (Parser.retrieve, setValue) and recurses into nested   *)
(* structures (Parser.parse).                                             *)
(*                                                                        *)
(* Text is modelled as Go sees it: a sequence of bytes (0..255).  Numbers *)
(* held by integer fields are kept as a sign and a sequence of decimal    *)
(* digits, so that 64-bit ranges are exact.                               *)
EXTENDS Integers, Sequences, FiniteSets, TLC

(* ---------------------------------------------------------------------- *)
(* Bounds of the model                                                    *)
(* ---------------------------------------------------------------------- *)

\* number of fields of the record handed to Get
MaxFields == 2

\* depth of nested parse calls after which the goroutine stack is taken to
\* be exhausted (only a self-referential type reaches it)
MaxDepth == 4

(* ---------------------------------------------------------------------- *)
(* Bytes and text                                                         *)
(* ---------------------------------------------------------------------- *)

IsDigit(c) == c >= 48 /\ c <= 57

RECURSIVE IndexFrom(_, _, _)
\* the first position >= i of s that holds byte c, or 0
IndexFrom(s, c, i) ==
    IF i > Len(s) THEN 0
    ELSE IF s[i] = c THEN i
    ELSE IndexFrom(s, c, i + 1)

RECURSIVE Split(_, _)
\* strings.Split(s, sep) for a one-byte separator
Split(s, sep) ==
    LET j == IndexFrom(s, sep, 1)
    IN  IF j = 0 THEN <<s>>
        ELSE <<SubSeq(s, 1, j - 1)>> \o Split(SubSeq(s, j + 1, Len(s)), sep)

RECURSIVE Join(_)
\* the annotation text of a list of tokens: the tokens separated by commas
Join(toks) ==
    IF Len(toks) = 0 THEN <<>>
    ELSE IF Len(toks) = 1 THEN toks[1]
    ELSE toks[1] \o <<44>> \o Join(Tail(toks))

RECURSIVE StripZeros(_)
StripZeros(ds) ==
    IF Len(ds) > 0 /\ ds[1] = 0 THEN StripZeros(Tail(ds)) ELSE ds

RECURSIVE LexLess(_, _)
\* a < b for digit sequences of equal length
LexLess(a, b) ==
    IF Len(a) = 0 THEN FALSE
    ELSE IF a[1] # b[1] THEN a[1] < b[1]
    ELSE LexLess(Tail(a), Tail(b))

\* a < b for magnitudes written without leading zeros
MagLess(a, b) ==
    IF Len(a) # Len(b) THEN Len(a) < Len(b) ELSE LexLess(a, b)

MagLeq(a, b) == a = b \/ MagLess(a, b)


(* ---------------------------------------------------------------------- *)
(* strconv: base-10 parsing at 64 bits, as setValueToInt, setValueToUint  *)
(* and setValueToBool call it                                             *)
(* ---------------------------------------------------------------------- *)

\* 2^64 - 1, 2^63 and the largest magnitudes of the narrower widths
MaxUint64 == <<1,8,4,4,6,7,4,4,0,7,3,7,0,9,5,5,1,6,1,5>>
MaxInt64 == <<9,2,2,3,3,7,2,0,3,6,8,5,4,7,7,5,8,0,7>>
MinInt64Mag == <<9,2,2,3,3,7,2,0,3,6,8,5,4,7,7,5,8,0,8>>

RECURSIVE ParseUintFrom(_, _, _)
\* the digit loop of strconv.ParseUint(s, 10, 64): a byte that is no digit
\* is a syntax error, a value above 2^64-1 a range error, whichever comes
\* first
ParseUintFrom(s, i, acc) ==
    IF i > Len(s) THEN [err |-> "", neg |-> FALSE, ds |-> acc]
    ELSE IF ~IsDigit(s[i]) THEN [err |-> "syntax", neg |-> FALSE, ds |-> <<>>]
    ELSE IF MagLess(MaxUint64, StripZeros(Append(acc, s[i] - 48)))
    THEN [err |-> "range", neg |-> FALSE, ds |-> MaxUint64]
    ELSE ParseUintFrom(s, i + 1, StripZeros(Append(acc, s[i] - 48)))

\* strconv.ParseUint(s, 10, 64)
ParseUint(s) ==
    IF Len(s) = 0 THEN [err |-> "syntax", neg |-> FALSE, ds |-> <<>>]
    ELSE ParseUintFrom(s, 1, <<>>)

\* the range test of strconv.ParseInt on the magnitude un of the text
ParseIntSigned(neg, un) ==
    IF un.err = "syntax" THEN un
    ELSE IF ~neg /\ MagLeq(MinInt64Mag, un.ds)
    THEN [err |-> "range", neg |-> FALSE, ds |-> MaxInt64]
    ELSE IF neg /\ MagLess(MinInt64Mag, un.ds)
    THEN [err |-> "range", neg |-> TRUE, ds |-> MinInt64Mag]
    ELSE [err |-> "", neg |-> neg /\ un.ds # <<>>, ds |-> un.ds]

\* strconv.ParseInt(s, 10, 64): a leading sign is picked off
ParseInt(s) ==
    IF Len(s) = 0 THEN [err |-> "syntax", neg |-> FALSE, ds |-> <<>>]
    ELSE ParseIntSigned(s[1] = 45, ParseUint(IF s[1] = 43 \/ s[1] = 45 THEN Tail(s) ELSE s))

\* the texts strconv.ParseBool accepts
TrueTexts == { <<49>>, <<116>>, <<84>>, <<84,82,85,69>>, <<116,114,117,101>>, <<84,114,117,101>> }
FalseTexts == { <<48>>, <<102>>, <<70>>, <<70,65,76,83,69>>, <<102,97,108,115,101>>, <<70,97,108,115,101>> }

\* strconv.ParseBool(s): the value is 1 for true, 0 for false
ParseBool(s) ==
    IF s \in TrueTexts THEN [err |-> "", neg |-> FALSE, ds |-> <<1>>]
    ELSE IF s \in FalseTexts THEN [err |-> "", neg |-> FALSE, ds |-> <<>>]
    ELSE [err |-> "syntax", neg |-> FALSE, ds |-> <<>>]

(* ---------------------------------------------------------------------- *)
(* reflect: kinds, widths and the overflow tests                          *)
(* ---------------------------------------------------------------------- *)

IntKinds == {"int", "int8", "int16", "int32", "int64"}
UintKinds == {"uint", "uint8", "uint16", "uint32", "uint64"}

\* the width in bits of a kind; int and uint have the width of the build
BitsOf(k, word) ==
    CASE k \in {"int8", "uint8"} -> 8
      [] k \in {"int16", "uint16"} -> 16
      [] k \in {"int32", "uint32"} -> 32
      [] k \in {"int64", "uint64"} -> 64
      [] OTHER -> word

\* the largest value of a signed kind of the width, and the magnitude of its
\* smallest value
MaxIntOf(bits) ==
    CASE bits = 8 -> <<1,2,7>>
      [] bits = 16 -> <<3,2,7,6,7>>
      [] bits = 32 -> <<2,1,4,7,4,8,3,6,4,7>>
      [] OTHER -> MaxInt64

MinIntMagOf(bits) ==
    CASE bits = 8 -> <<1,2,8>>
      [] bits = 16 -> <<3,2,7,6,8>>
      [] bits = 32 -> <<2,1,4,7,4,8,3,6,4,8>>
      [] OTHER -> MinInt64Mag

MaxUintOf(bits) ==
    CASE bits = 8 -> <<2,5,5>>
      [] bits = 16 -> <<6,5,5,3,5>>
      [] bits = 32 -> <<4,2,9,4,9,6,7,2,9,5>>
      [] OTHER -> MaxUint64

\* reflect.Value.OverflowInt: the value does not survive truncation to the
\* width of the kind
OverflowInt(bits, n) ==
    IF n.neg THEN MagLess(MinIntMagOf(bits), n.ds)
    ELSE MagLess(MaxIntOf(bits), n.ds)

\* reflect.Value.OverflowUint
OverflowUint(bits, n) == MagLess(MaxUintOf(bits), n.ds)

(* ---------------------------------------------------------------------- *)
(* encoding/base64: StdEncoding.DecodeString, as Parser.retrieve calls it  *)
(* ---------------------------------------------------------------------- *)

\* the value of a byte in the standard alphabet, or -1
B64Val(c) ==
    CASE c >= 65 /\ c <= 90 -> c - 65
      [] c >= 97 /\ c <= 122 -> c - 71
      [] c >= 48 /\ c <= 57 -> c + 4
      [] c = 43 -> 62
      [] c = 47 -> 63
      [] OTHER -> -1

\* the text without the line breaks the decoder skips
DropNewlines(s) == SelectSeq(s, LAMBDA c : c # 10 /\ c # 13)

RECURSIVE B64Quanta(_)
\* one quantum of four bytes at a time; padding ends the input
B64Quanta(s) ==
    IF Len(s) = 0 THEN [ok |-> TRUE, bytes |-> <<>>]
    ELSE IF Len(s) < 4 THEN [ok |-> FALSE, bytes |-> <<>>]
    ELSE LET a == B64Val(s[1])
             b == B64Val(s[2])
             c == B64Val(s[3])
             d == B64Val(s[4])
             b1 == a * 4 + (b \div 16)
             b2 == (b % 16) * 16 + (c \div 4)
             b3 == (c % 4) * 64 + d
         IN  IF a < 0 \/ b < 0 THEN [ok |-> FALSE, bytes |-> <<>>]
             ELSE IF c >= 0 /\ d >= 0
             THEN LET r == B64Quanta(SubSeq(s, 5, Len(s)))
                  IN  [ok |-> r.ok, bytes |-> <<b1, b2, b3>> \o r.bytes]
             ELSE IF c >= 0 /\ s[4] = 61 /\ Len(s) = 4
             THEN [ok |-> TRUE, bytes |-> <<b1, b2>>]
             ELSE IF s[3] = 61 /\ s[4] = 61 /\ Len(s) = 4
             THEN [ok |-> TRUE, bytes |-> <<b1>>]
             ELSE [ok |-> FALSE, bytes |-> <<>>]

\* base64.StdEncoding.DecodeString(s)
B64Decode(s) == B64Quanta(DropNewlines(s))

(* ---------------------------------------------------------------------- *)
(* encoding/json: the scanner.  The grammar covered is null, true, false, *)
(* numbers, strings without escapes, and objects of these (nested); the   *)
(* texts the model draws stay inside it.                                  *)
(* ---------------------------------------------------------------------- *)

IsSpace(c) == c = 32 \/ c = 9 \/ c = 10 \/ c = 13

RECURSIVE SkipSpace(_, _)
SkipSpace(s, i) ==
    IF i <= Len(s) /\ IsSpace(s[i]) THEN SkipSpace(s, i + 1) ELSE i

RECURSIVE SkipDigits(_, _)
SkipDigits(s, i) ==
    IF i <= Len(s) /\ IsDigit(s[i]) THEN SkipDigits(s, i + 1) ELSE i

JBad == [ok |-> FALSE, v |-> [t |-> "bad", s |-> <<>>, m |-> <<>>], pos |-> 0]

JGood(t, txt, members, pos) == [ok |-> TRUE, v |-> [t |-> t, s |-> txt, m |-> members], pos |-> pos]

HasPrefixAt(s, i, lit) == i + Len(lit) - 1 <= Len(s) /\ SubSeq(s, i, i + Len(lit) - 1) = lit

\* the exponent of a number literal, if any: j is where the fraction ended
JNumExp(s, i, j) ==
    IF j <= Len(s) /\ (s[j] = 101 \/ s[j] = 69)
    THEN LET k == IF j + 1 <= Len(s) /\ (s[j + 1] = 43 \/ s[j + 1] = 45) THEN j + 2 ELSE j + 1
         IN  IF SkipDigits(s, k) = k THEN JBad
             ELSE JGood("num", SubSeq(s, i, SkipDigits(s, k) - 1), <<>>, SkipDigits(s, k))
    ELSE JGood("num", SubSeq(s, i, j - 1), <<>>, j)

\* the fraction of a number literal, if any: j is where the integer ended
JNumFrac(s, i, j) ==
    IF j <= Len(s) /\ s[j] = 46
    THEN IF SkipDigits(s, j + 1) = j + 1 THEN JBad ELSE JNumExp(s, i, SkipDigits(s, j + 1))
    ELSE JNumExp(s, i, j)

\* the integer part of a number literal: j is where its digits start
JNumInt(s, i, j) ==
    IF j > Len(s) \/ ~IsDigit(s[j]) THEN JBad
    ELSE IF s[j] = 48 THEN JNumFrac(s, i, j + 1)
    ELSE JNumFrac(s, i, SkipDigits(s, j))

\* a number literal starting at i: -? (0 | [1-9][0-9]*) (. [0-9]+)? ([eE] [+-]? [0-9]+)?
JNumber(s, i) == JNumInt(s, i, IF s[i] = 45 THEN i + 1 ELSE i)

\* a string literal starting at the quote at i
JString(s, i) ==
    LET j == IndexFrom(s, 34, i + 1)
        body == SubSeq(s, i + 1, j - 1)
    IN  IF j = 0 \/ \E k \in 1..Len(body) : body[k] < 32 \/ body[k] = 92 THEN JBad
        ELSE JGood("str", body, <<>>, j + 1)

RECURSIVE JValue(_, _)
RECURSIVE JMembers(_, _, _)

\* after a member's value: a comma and the next member, or the closing brace
JMemberSep(s, i, got) ==
    IF i > Len(s) THEN JBad
    ELSE IF s[i] = 125 THEN JGood("obj", <<>>, got, i + 1)
    ELSE IF s[i] = 44 THEN JMembers(s, i + 1, got)
    ELSE JBad

JMemberDone(s, key, val, acc) ==
    IF val.ok THEN JMemberSep(s, SkipSpace(s, val.pos), Append(acc, [k |-> key.v.s, v |-> val.v]))
    ELSE JBad

\* after a member's key: a colon and the value
JMemberColon(s, key, i, acc) ==
    IF i <= Len(s) /\ s[i] = 58 THEN JMemberDone(s, key, JValue(s, i + 1), acc) ELSE JBad

JMemberKey(s, key, acc) ==
    IF key.ok THEN JMemberColon(s, key, SkipSpace(s, key.pos), acc) ELSE JBad

JMemberStart(s, i, acc) ==
    IF i <= Len(s) /\ s[i] = 34 THEN JMemberKey(s, JString(s, i), acc) ELSE JBad

\* the members of an object, i at or before the next key
JMembers(s, i, acc) == JMemberStart(s, SkipSpace(s, i), acc)

\* after the opening brace: an empty object, or members
JObject(s, i) ==
    IF i <= Len(s) /\ s[i] = 125 THEN JGood("obj", <<>>, <<>>, i + 1) ELSE JMembers(s, i, <<>>)

JValueAt(s, j) ==
    IF j > Len(s) THEN JBad
    ELSE IF s[j] = 123 THEN JObject(s, SkipSpace(s, j + 1))
    ELSE IF s[j] = 34 THEN JString(s, j)
    ELSE IF s[j] = 45 \/ IsDigit(s[j]) THEN JNumber(s, j)
    ELSE IF HasPrefixAt(s, j, <<116,114,117,101>>) THEN JGood("bool", <<1>>, <<>>, j + 4)
    ELSE IF HasPrefixAt(s, j, <<102,97,108,115,101>>) THEN JGood("bool", <<>>, <<>>, j + 5)
    ELSE IF HasPrefixAt(s, j, <<110,117,108,108>>) THEN JGood("null", <<>>, <<>>, j + 4)
    ELSE JBad

\* the value that starts at or after i
JValue(s, i) == JValueAt(s, SkipSpace(s, i))

JWhole(s, r) == IF r.ok /\ SkipSpace(s, r.pos) > Len(s) THEN r.v ELSE JBad.v

\* the whole text is one value (checkValid): the value, or t = "bad"
JParse(s) == JWhole(s, JValue(s, 1))

(* ---------------------------------------------------------------------- *)
(* Types, fields and records                                              *)
(* ---------------------------------------------------------------------- *)

\* A type is its kind k and, for a structure, the name e of its definition;
\* for a pointer, e is what it points to: a kind or the name of a structure.
\* The kinds "bytes" and "ints" are the slices []byte and []int.
Ty(k, e) == [k |-> k, e |-> e]

\* external names and modifiers, as bytes
NameA == <<65>>
NameB == <<66>>
NameC == <<67>>
NameN == <<78>>
TokOptional == <<111,112,116,105,111,110,97,108>>
TokBase64 == <<98,97,115,101,54,52>>
TokJSON == <<106,115,111,110>>
TokBogus == <<120>>
TokOther == <<121>>

\* a field of a structure type: its Go name, whether it is exported, whether
\* it carries an annotation under the parser's key and the annotation's text,
\* the name encoding/json knows it by, and its type
Field(name, exported, tagged, raw, jname, type) ==
    [name |-> name, exported |-> exported, tagged |-> tagged, raw |-> raw, jname |-> jname, type |-> type]

\* the structure types that fields of the record may have
StructDefs ==
    [ Plain |-> << Field("VarC", TRUE, FALSE, <<>>, <<118,97,114,99>>, Ty("int", "")),
                   Field("VarD", TRUE, FALSE, <<>>, <<118,97,114,100>>, Ty("string", "")) >>,
      Tagd |-> << Field("VarC", TRUE, TRUE, NameC, <<118,97,114,99>>, Ty("int", "")) >>,
      Jsnd |-> << Field("VarC", TRUE, TRUE, Join(<<NameC, TokJSON>>), <<118,97,114,99>>, Ty("int", "")) >>,
      Wrap |-> << Field("Inner", TRUE, TRUE, Join(<<NameN, TokJSON>>), <<105,110,110,101,114>>,
                        Ty("struct", "Tagd")) >>,
      Mixd |-> << Field("VarC", TRUE, TRUE, NameC, <<118,97,114,99>>, Ty("int", "")),
                  Field("VarE", TRUE, TRUE, Join(<<NameA, TokOptional, TokBogus, TokOther>>),
                        <<118,97,114,101>>, Ty("string", "")) >>,
      Deep |-> << Field("Inner", TRUE, FALSE, <<>>, <<73,110,110,101,114>>, Ty("struct", "Tagd")) >>,
      Holder |-> << Field("Ptr", TRUE, FALSE, <<>>, <<80,116,114>>, Ty("ptr", "Plain")) >>,
      Node |-> << Field("Next", TRUE, FALSE, <<>>, <<78,101,120,116>>, Ty("ptr", "Node")) >> ]

StructNames == DOMAIN StructDefs

IsStruct(t) == t.k = "struct"
IsPtrToStruct(t) == t.k = "ptr" /\ t.e \in StructNames

\* the type a pointer points to
Elem(t) == IF t.e \in StructNames THEN Ty("struct", t.e) ELSE Ty(t.e, "")

\* reflect.Kind of a type, as the errors carry it
GoKind(t) == IF t.k \in {"bytes", "ints"} THEN "slice" ELSE t.k

\* the declarations a field of the record handed to Get is drawn from: a
\* type, an annotation (or none) and whether the field is exported
Decl(type, tagged, toks, exported) ==
    [type |-> type, tagged |-> tagged, raw |-> Join(toks), exported |-> exported]

FieldDecls ==
    { Decl(Ty("string", ""), FALSE, <<>>, TRUE),
      Decl(Ty("string", ""), TRUE, <<NameA>>, TRUE),
      Decl(Ty("string", ""), TRUE, <<NameA, TokOptional>>, TRUE),
      Decl(Ty("string", ""), TRUE, <<>>, TRUE),
      Decl(Ty("string", ""), TRUE, <<NameA, TokBogus>>, TRUE),
      Decl(Ty("string", ""), TRUE, <<NameA>>, FALSE),
      Decl(Ty("int8", ""), TRUE, <<NameB>>, TRUE),
      Decl(Ty("ptr", "int8"), TRUE, <<NameB, TokOptional>>, TRUE),
      Decl(Ty("ptr", "int8"), TRUE, <<NameB, TokJSON>>, TRUE),
      Decl(Ty("bytes", ""), TRUE, <<NameA, TokBase64>>, TRUE),
      Decl(Ty("interface", ""), TRUE, <<NameA>>, TRUE),
      Decl(Ty("struct", "Plain"), FALSE, <<>>, TRUE),
      Decl(Ty("ptr", "Plain"), FALSE, <<>>, TRUE),
      Decl(Ty("ptr", "Plain"), FALSE, <<>>, FALSE),
      Decl(Ty("struct", "Holder"), FALSE, <<>>, TRUE),
      Decl(Ty("ptr", "Node"), FALSE, <<>>, TRUE),
      Decl(Ty("struct", "Tagd"), FALSE, <<>>, TRUE),
      Decl(Ty("struct", "Tagd"), TRUE, <<NameN, TokJSON>>, TRUE),
      Decl(Ty("ptr", "Tagd"), TRUE, <<NameN, TokJSON, TokOptional>>, TRUE),
      Decl(Ty("struct", "Deep"), TRUE, <<NameN, TokJSON>>, TRUE),
      Decl(Ty("struct", "Mixd"), TRUE, <<NameN, TokJSON>>, TRUE),
      Decl(Ty("struct", "Plain"), TRUE, <<NameN, TokOptional>>, TRUE),
      Decl(Ty("ptr", "Plain"), TRUE, <<NameN, TokJSON, TokOptional>>, TRUE) }

FieldNames == <<"F1", "F2", "F3", "F4">>

\* the structure type made of the declarations ds, in this order
RecordOf(ds) ==
    [i \in 1..Len(ds) |->
        Field(FieldNames[i], ds[i].exported, ds[i].tagged, ds[i].raw, <<70, 48 + i>>, ds[i].type)]

RECURSIVE SeqsUpTo(_, _)
\* the sequences over S of length 1..n
SeqsUpTo(S, n) ==
    IF n = 0 THEN {}
    ELSE LET shorter == SeqsUpTo(S, n - 1)
         IN  {<<x>> : x \in S} \cup shorter \cup {Append(q, x) : q \in {r \in shorter : Len(r) = n - 1}, x \in S}

(* ---------------------------------------------------------------------- *)
(* The record's storage                                                   *)
(* ---------------------------------------------------------------------- *)

\* A field is found by its path: the indices of the fields that lead to it
\* from the record.  A scalar field has a cell holding its value; a pointer
\* field has a cell holding the address it references (NilAddr when empty)
\* and, if it points to a scalar, the value stored there; the fields of a
\* structure, and of the structure a pointer references, have cells of
\* their own under its path.
NilAddr == <<>>

ZeroVal == [neg |-> FALSE, ds |-> <<>>]

Cell(addr, v) == [addr |-> addr, v |-> v]

EmptyStore == [q \in {} |-> Cell(NilAddr, ZeroVal)]

\* the value a caller has put into a field of the kind before the call
DefaultVal(t) ==
    CASE t.k \in {"string", "bytes"} -> [neg |-> FALSE, ds |-> <<100>>]
      [] t.k \in IntKinds \cup UintKinds -> [neg |-> FALSE, ds |-> <<7>>]
      [] t.k = "bool" -> [neg |-> FALSE, ds |-> <<1>>]
      [] OTHER -> ZeroVal

RECURSIVE CellsOf(_, _, _, _)
RECURSIVE FieldCells(_, _, _, _, _)

\* the cells of a value of type t at path p: zero values and empty pointers,
\* or, when filled, the caller's defaults and storage behind the pointers of
\* the record itself (lvl = 0)
CellsOf(t, p, filled, lvl) ==
    IF IsStruct(t) THEN FieldCells(StructDefs[t.e], 1, p, filled, lvl)
    ELSE IF t.k = "ptr"
    THEN IF filled /\ lvl = 0
         THEN IF IsPtrToStruct(t)
              THEN (p :> Cell(<<0>> \o p, ZeroVal)) @@ FieldCells(StructDefs[t.e], 1, p, filled, lvl + 1)
              ELSE p :> Cell(<<0>> \o p, DefaultVal(Elem(t)))
         ELSE p :> Cell(NilAddr, ZeroVal)
    ELSE p :> Cell(NilAddr, IF filled THEN DefaultVal(t) ELSE ZeroVal)

FieldCells(fields, i, p, filled, lvl) ==
    IF i > Len(fields) THEN EmptyStore
    ELSE CellsOf(fields[i].type, Append(p, i), filled, lvl) @@ FieldCells(fields, i + 1, p, filled, lvl)

IsPrefix(p, q) == Len(p) <= Len(q) /\ SubSeq(q, 1, Len(p)) = p

\* the cells of the field at p: its own and those below it
SubStore(st, p) == [q \in {x \in DOMAIN st : IsPrefix(p, x)} |-> st[q]]

\* the store without the cells strictly below p
DropBelow(st, p) ==
    [q \in {x \in DOMAIN st : x = p \/ ~IsPrefix(p, x)} |-> st[q]]

\* reflect.New for the pointer of type t at p: the pointer references fresh
\* storage, with address na, that holds the zero value of what it points to
NewAt(st, t, p, na) ==
    (p :> Cell(<<na>>, ZeroVal))
        @@ (IF IsPtrToStruct(t) THEN FieldCells(StructDefs[t.e], 1, p, FALSE, 1) ELSE EmptyStore)
        @@ DropBelow(st, p)

(* ---------------------------------------------------------------------- *)
(* Errors (errors.go)                                                     *)
(* ---------------------------------------------------------------------- *)

NoErr == [kind |-> "none", field |-> "", key |-> <<>>, value |-> <<>>, typ |-> "", tag |-> <<>>, opt |-> <<>>, cause |-> ""]

NewErrCannotParseEnv(cause, k, key, value) ==
    [NoErr EXCEPT !.kind = "CannotParseEnv", !.cause = cause, !.typ = k, !.key = key, !.value = value]

NewErrCannotSetKind(k) == [NoErr EXCEPT !.kind = "CannotSetKind", !.typ = k]

NewErrDecodeFailure(cause, key, value, typ) ==
    [NoErr EXCEPT !.kind = "DecodeFailure", !.cause = cause, !.key = key, !.value = value, !.typ = typ]

NewErrInvalidConfigType(t) == [NoErr EXCEPT !.kind = "InvalidConfigType", !.typ = t]

NewErrInvalidTagOption(tag, option) ==
    [NoErr EXCEPT !.kind = "InvalidTagOption", !.tag = tag, !.opt = option]

NewErrMissingNameTag(t) == [NoErr EXCEPT !.kind = "MissingNameTag", !.tag = t]

NewErrOverflow(k, key, value) ==
    [NoErr EXCEPT !.kind = "Overflow", !.typ = k, !.key = key, !.value = value]

NewErrVarNotFound(key) == [NoErr EXCEPT !.kind = "VarNotFound", !.key = key]

NewErrNestedTags(field, key) == [NoErr EXCEPT !.kind = "NestedTags", !.field = field, !.key = key]

ErrorKinds ==
    { "InvalidConfigType", "MissingNameTag", "InvalidTagOption", "VarNotFound", "DecodeFailure",
      "CannotParseEnv", "Overflow", "CannotSetKind", "NestedTags" }

(* ---------------------------------------------------------------------- *)
(* parseTag                                                               *)
(* ---------------------------------------------------------------------- *)

tagData == [Tagged |-> FALSE, Name |-> <<>>, Optional |-> FALSE, Base64 |-> FALSE, JSON |-> FALSE]

RECURSIVE ParseOptionsInOrder(_, _, _, _)
\* ParseOptions that takes base64 only when it is written before json
ParseOptionsInOrder(tagTokens, i, tags, result) ==
    IF i > Len(tagTokens) THEN [tag |-> result, err |-> NoErr]
    ELSE IF tagTokens[i] = TokBase64
    THEN ParseOptionsInOrder(tagTokens, i + 1, tags, [result EXCEPT !.Base64 = ~result.JSON])
    ELSE IF tagTokens[i] = TokJSON
    THEN ParseOptionsInOrder(tagTokens, i + 1, tags, [result EXCEPT !.JSON = TRUE])
    ELSE IF tagTokens[i] = TokOptional
    THEN ParseOptionsInOrder(tagTokens, i + 1, tags, [result EXCEPT !.Optional = TRUE])
    ELSE [tag |-> tagData, err |-> NewErrInvalidTagOption(tags, tagTokens[i])]

RECURSIVE ParseOptions(_, _, _, _)
\* the loop over the tokens after the name
ParseOptions(tagTokens, i, tags, result) ==
    IF i > Len(tagTokens) THEN [tag |-> result, err |-> NoErr]
    ELSE IF tagTokens[i] = TokBase64
    THEN ParseOptions(tagTokens, i + 1, tags, [result EXCEPT !.Base64 = TRUE])
    ELSE IF tagTokens[i] = TokJSON
    THEN ParseOptions(tagTokens, i + 1, tags, [result EXCEPT !.JSON = TRUE])
    ELSE IF tagTokens[i] = TokOptional
    THEN ParseOptions(tagTokens, i + 1, tags, [result EXCEPT !.Optional = TRUE])
    ELSE [tag |-> tagData, err |-> NewErrInvalidTagOption(tags, tagTokens[i])]

\* parseTag that does not test the name
parseTagAnyName(f) ==
    IF ~f.tagged THEN [tag |-> tagData, err |-> NoErr]
    ELSE ParseOptions(Split(f.raw, 44), 2, f.raw,
                      [tagData EXCEPT !.Tagged = TRUE, !.Name = Split(f.raw, 44)[1]])

\* parseTag(f, tag): the annotation of the field under the parser's key
parseTag(f) ==
    IF ~f.tagged THEN [tag |-> tagData, err |-> NoErr]
    ELSE LET tagTokens == Split(f.raw, 44)
             named == [tagData EXCEPT !.Tagged = TRUE, !.Name = tagTokens[1]]
         IN  IF Len(tagTokens[1]) = 0
             THEN [tag |-> named, err |-> NewErrMissingNameTag(f.raw)]
             ELSE ParseOptions(tagTokens, 2, f.raw, named)

(* ---------------------------------------------------------------------- *)
(* setValue and the setValueTo* functions                                 *)
(* ---------------------------------------------------------------------- *)

\* A step on a reflect.Value ends in one of three ways: "ok", "err" (an
\* error is returned) or "panic" (reflect panics: a value reached through an
\* unexported field, ro, is assigned or handed out as an interface).
Assigned(ro, val) ==
    IF ro THEN [out |-> "panic", err |-> NoErr, val |-> ZeroVal]
    ELSE [out |-> "ok", err |-> NoErr, val |-> val]

Failed(err) == [out |-> "err", err |-> err, val |-> ZeroVal]

\* setParsedInt without the overflow test
setParsedIntUnchecked(ro, bits, k, key, value, intVal) ==
    IF intVal.err # "" THEN Failed(NewErrCannotParseEnv(intVal.err, k, key, value))
    ELSE Assigned(ro, [neg |-> intVal.neg, ds |-> intVal.ds])

\* setValueToInt after strconv.ParseInt has returned intVal
setParsedInt(ro, bits, k, key, value, intVal) ==
    IF intVal.err # "" THEN Failed(NewErrCannotParseEnv(intVal.err, k, key, value))
    ELSE IF OverflowInt(bits, intVal) THEN Failed(NewErrOverflow(k, key, value))
    ELSE Assigned(ro, [neg |-> intVal.neg, ds |-> intVal.ds])

setValueToInt(ro, bits, k, key, value) == setParsedInt(ro, bits, k, key, value, ParseInt(value))

\* setValueToUint after strconv.ParseUint has returned uintVal
setParsedUint(ro, bits, k, key, value, uintVal) ==
    IF uintVal.err # "" THEN Failed(NewErrCannotParseEnv(uintVal.err, k, key, value))
    ELSE IF OverflowUint(bits, uintVal) THEN Failed(NewErrOverflow(k, key, value))
    ELSE Assigned(ro, [neg |-> FALSE, ds |-> uintVal.ds])

setValueToUint(ro, bits, k, key, value) == setParsedUint(ro, bits, k, key, value, ParseUint(value))

\* setValueToBool after strconv.ParseBool has returned boolVal
setParsedBool(ro, k, key, value, boolVal) ==
    IF boolVal.err # "" THEN Failed(NewErrCannotParseEnv(boolVal.err, k, key, value))
    ELSE Assigned(ro, [neg |-> FALSE, ds |-> boolVal.ds])

setValueToBool(ro, k, key, value) == setParsedBool(ro, k, key, value, ParseBool(value))

\* setValue(v, key, value) for a value v of type t; word is the width of
\* int and uint
setValue(t, ro, word, key, value) ==
    CASE t.k = "bytes" -> Assigned(ro, [neg |-> FALSE, ds |-> value])
      [] t.k = "string" -> Assigned(ro, [neg |-> FALSE, ds |-> value])
      [] t.k \in IntKinds -> setValueToInt(ro, BitsOf(t.k, word), t.k, key, value)
      [] t.k \in UintKinds -> setValueToUint(ro, BitsOf(t.k, word), t.k, key, value)
      [] t.k = "bool" -> setValueToBool(ro, t.k, key, value)
      [] OTHER -> Failed(NewErrCannotSetKind(GoKind(t)))

(* ---------------------------------------------------------------------- *)
(* encoding/json: Unmarshal into a value of the record                    *)
(* ---------------------------------------------------------------------- *)

\* ASCII case folding, as the decoder matches a key to a field
Fold(s) == [i \in 1..Len(s) |-> IF s[i] >= 97 /\ s[i] <= 122 THEN s[i] - 32 ELSE s[i]]

\* the field of the structure that a key names: an exact match before a
\* folded one, exported fields only; 0 when there is none
FindField(fields, key) ==
    LET exact == {i \in 1..Len(fields) : fields[i].exported /\ fields[i].jname = key}
        folded == {i \in 1..Len(fields) : fields[i].exported /\ Fold(fields[i].jname) = Fold(key)}
    IN  IF exact # {} THEN CHOOSE i \in exact : \A j \in exact : i <= j
        ELSE IF folded # {} THEN CHOOSE i \in folded : \A j \in folded : i <= j
        ELSE 0

JOut(st, na, err) == [st |-> st, na |-> na, err |-> err]

SetVal(st, p, val) == [st EXCEPT ![p] = Cell(st[p].addr, val)]

\* a number literal into an integer field; n is what strconv made of it
JSetInt(n, over, p, st, na) ==
    IF n.err # "" \/ over THEN JOut(st, na, "type")
    ELSE JOut(SetVal(st, p, [neg |-> n.neg, ds |-> n.ds]), na, "")

JIntInto(n, t, p, st, na, word) == JSetInt(n, OverflowInt(BitsOf(t.k, word), n), p, st, na)

JUintInto(n, t, p, st, na, word) == JSetInt(n, OverflowUint(BitsOf(t.k, word), n), p, st, na)

\* a string literal into a []byte field; b is its base64 decoding
JSetBytes(b, p, st, na) ==
    IF b.ok THEN JOut(SetVal(st, p, [neg |-> FALSE, ds |-> b.bytes]), na, "")
    ELSE JOut(st, na, "base64")

\* a literal jv into the scalar of type t at p
JLiteral(jv, t, p, st, na, word) ==
    IF jv.t = "null"
    THEN IF t.k \in {"bytes", "ints"} THEN JOut(SetVal(st, p, ZeroVal), na, "") ELSE JOut(st, na, "")
    ELSE IF jv.t = "bool"
    THEN IF t.k = "bool" THEN JOut(SetVal(st, p, [neg |-> FALSE, ds |-> jv.s]), na, "")
         ELSE JOut(st, na, "type")
    ELSE IF jv.t = "str"
    THEN IF t.k = "string" THEN JOut(SetVal(st, p, [neg |-> FALSE, ds |-> jv.s]), na, "")
         ELSE IF t.k = "bytes" THEN JSetBytes(B64Decode(jv.s), p, st, na)
         ELSE JOut(st, na, "type")
    ELSE IF jv.t = "num" /\ t.k \in IntKinds THEN JIntInto(ParseInt(jv.s), t, p, st, na, word)
    ELSE IF jv.t = "num" /\ t.k \in UintKinds THEN JUintInto(ParseUint(jv.s), t, p, st, na, word)
    ELSE JOut(st, na, "type")

RECURSIVE JDec(_, _, _, _, _, _)
RECURSIVE JDecMembers(_, _, _, _, _, _, _, _)

\* decode the value jv into the value of type t at p.  A type mismatch is
\* remembered and decoding goes on; the first one is the error returned.
\* A nil pointer on the way gets fresh storage, unless the value is null.
JDec(jv, t, p, st, na, word) ==
    IF t.k = "ptr"
    THEN IF jv.t = "null" THEN JOut((p :> Cell(NilAddr, ZeroVal)) @@ DropBelow(st, p), na, "")
         ELSE IF st[p].addr = NilAddr THEN JDec(jv, Elem(t), p, NewAt(st, t, p, na), na + 1, word)
         ELSE JDec(jv, Elem(t), p, st, na, word)
    ELSE IF t.k = "interface"
    THEN IF jv.t = "null" THEN JOut([st EXCEPT ![p] = Cell(NilAddr, ZeroVal)], na, "")
         ELSE JOut([st EXCEPT ![p] = Cell(<<na>>, [neg |-> FALSE, ds |-> jv.s])], na + 1, "")
    ELSE IF jv.t = "obj" /\ IsStruct(t) THEN JDecMembers(jv.m, 1, t, p, st, na, word, "")
    ELSE IF jv.t = "obj" \/ IsStruct(t) THEN JOut(st, na, IF jv.t = "null" THEN "" ELSE "type")
    ELSE JLiteral(jv, t, p, st, na, word)

\* the next member after member i has been decoded with result r
JDecNext(m, i, t, p, word, err, r) ==
    JDecMembers(m, i + 1, t, p, r.st, r.na, word, IF err # "" THEN err ELSE r.err)

\* member i into the field fi it names
JDecMember(m, i, t, p, st, na, word, err, fi) ==
    IF fi = 0 THEN JDecMembers(m, i + 1, t, p, st, na, word, err)
    ELSE JDecNext(m, i, t, p, word, err, JDec(m[i].v, StructDefs[t.e][fi].type, Append(p, fi), st, na, word))

\* the members of an object, in order, into the fields they name; a key
\* that names no field is skipped
JDecMembers(m, i, t, p, st, na, word, err) ==
    IF i > Len(m) THEN JOut(st, na, err)
    ELSE JDecMember(m, i, t, p, st, na, word, err, FindField(StructDefs[t.e], m[i].k))

\* Unmarshal once the text has been scanned: a text that is no JSON value
\* is refused before anything is assigned
UnmarshalValue(jv, t, p, st, na, word) ==
    IF jv.t = "bad" THEN JOut(st, na, "syntax") ELSE JDec(jv, t, p, st, na, word)

\* json.Unmarshal(bytes, ptr) where ptr references the value of type t at p
Unmarshal(bytes, t, p, st, na, word) == UnmarshalValue(JParse(bytes), t, p, st, na, word)

(* ---------------------------------------------------------------------- *)
(* Parser.retrieve                                                        *)
(* ---------------------------------------------------------------------- *)

ROut(out, err, st, na) == [out |-> out, err |-> err, st |-> st, na |-> na]

\* retrieveMissing that takes every field for optional
retrieveMissingAllOptional(tag, st, na) == ROut("ok", NoErr, st, na)

\* the lookup function reported the name as not found
retrieveMissing(tag, st, na) ==
    IF ~tag.Optional THEN ROut("err", NewErrVarNotFound(tag.Name), st, na)
    ELSE ROut("ok", NoErr, st, na)

\* the bytes handed to the next stage: base64-decoded if specified
decodeBytes(tag, value) ==
    IF tag.Base64 THEN B64Decode(value) ELSE [ok |-> TRUE, bytes |-> value]

\* the storage a pointer field references when JSON is decoded into it:
\* fresh storage only if the pointer is nil
jsonStorage(st, t, p, na) ==
    IF t.k = "ptr" /\ st[p].addr = NilAddr THEN [st |-> NewAt(st, t, p, na), na |-> na + 1]
    ELSE [st |-> st, na |-> na]

\* what the JSON stage returns once Unmarshal has returned r
jsonResult(tag, value, r) ==
    IF r.err # "" THEN ROut("err", NewErrDecodeFailure(r.err, tag.Name, value, "json"), r.st, r.na)
    ELSE ROut("ok", NoErr, r.st, r.na)

\* jsonInto that reports the decoded bytes as the value
jsonIntoDecoded(t, tag, p, word, value, bytes, a) ==
    jsonResult(tag, bytes, Unmarshal(bytes, IF t.k = "ptr" THEN Elem(t) ELSE t, p, a.st, a.na, word))

\* the JSON stage on the storage a
jsonInto(t, tag, p, word, value, bytes, a) ==
    jsonResult(tag, value, Unmarshal(bytes, IF t.k = "ptr" THEN Elem(t) ELSE t, p, a.st, a.na, word))

\* the JSON stage: v.Set and v.Interface panic on a value reached through an
\* unexported field
retrieveJSON(t, tag, p, ro, st, na, word, value, bytes) ==
    IF ro THEN ROut("panic", NoErr, st, na)
    ELSE jsonInto(t, tag, p, word, value, bytes, jsonStorage(st, t, p, na))

\* scalarStorage that allocates only for a nil pointer
scalarStorageIfNil(st, t, p, na) ==
    IF t.k = "ptr" /\ st[p].addr = NilAddr THEN [st |-> NewAt(st, t, p, na), na |-> na + 1]
    ELSE [st |-> st, na |-> na]

\* the storage a pointer field references when a scalar is set through it:
\* always fresh
scalarStorage(st, t, p, na) ==
    IF t.k = "ptr" THEN [st |-> NewAt(st, t, p, na), na |-> na + 1]
    ELSE [st |-> st, na |-> na]

\* what the coercion stage returns once setValue has returned r, on the
\* storage a
scalarResult(p, a, r) ==
    IF r.out = "ok" THEN ROut("ok", NoErr, SetVal(a.st, p, r.val), a.na)
    ELSE ROut(r.out, r.err, a.st, a.na)

\* the coercion stage: v.Set panics on a value reached through an
\* unexported field
retrieveScalar(t, tag, p, ro, st, na, word, bytes) ==
    IF t.k = "ptr" /\ ro THEN ROut("panic", NoErr, st, na)
    ELSE scalarResult(p, scalarStorage(st, t, p, na),
                      setValue(IF t.k = "ptr" THEN Elem(t) ELSE t, ro, word, tag.Name, bytes))

\* retrieveFound that hands the looked-up text itself to the next stage
retrieveFoundRaw(t, tag, p, ro, st, na, word, value, dec) ==
    IF ~dec.ok THEN ROut("err", NewErrDecodeFailure("base64", tag.Name, value, "base64"), st, na)
    ELSE IF tag.JSON THEN retrieveJSON(t, tag, p, ro, st, na, word, value, value)
    ELSE retrieveScalar(t, tag, p, ro, st, na, word, value)

\* retrieve once the value is found and its bytes are decoded (dec)
retrieveFound(t, tag, p, ro, st, na, word, value, dec) ==
    IF ~dec.ok THEN ROut("err", NewErrDecodeFailure("base64", tag.Name, value, "base64"), st, na)
    ELSE IF tag.JSON THEN retrieveJSON(t, tag, p, ro, st, na, word, value, dec.bytes)
    ELSE retrieveScalar(t, tag, p, ro, st, na, word, dec.bytes)

\* retrieve(v, tag) for the field of type t at p, given what the lookup
\* function returned for tag.Name
retrieve(t, tag, p, ro, st, na, word, found, value) ==
    IF ~found THEN retrieveMissing(tag, st, na)
    ELSE retrieveFound(t, tag, p, ro, st, na, word, value, decodeBytes(tag, value))

(* ---------------------------------------------------------------------- *)
(* State                                                                  *)
(* ---------------------------------------------------------------------- *)

VARIABLES
    arg,          \* what is handed to Get: see ArgKinds
    root,         \* the structure type of the record: its fields
    word,         \* the width of int and uint in the build: 32 or 64
    lookupRange,  \* the texts the lookup function may return
    store,        \* the record's storage
    pre,          \* the record's storage before the call
    stack,        \* the active calls of Parser.parse, the innermost last
    ret,          \* what the last finished call of parse returned
    result,       \* how Get ended, once it has
    nextAddr,     \* the address reflect.New hands out next
    trace,        \* what Get has done so far, in order
    run,          \* 0: one call of Get, the lookup function answers freely;
                  \* 1, 2: the first and the second of two calls of Get with
                  \* one lookup function
    first         \* the record's type, its storage, the result and the
                  \* trace at the end of the first of two calls

vars == <<arg, root, word, lookupRange, store, pre, stack, ret, result, nextAddr, trace, run, first>>

\* nil, a value that is no pointer, a pointer to a value that is no
\* structure, a nil pointer to a structure, a pointer to a record
ArgKinds == {"nil", "value", "ptrToValue", "nilPtr", "ptr"}

\* "5", "x", "{}", {"varc":7} and {"varc":"x","vard":"v"}
TextFive == <<53>>
TextX == <<120>>
TextEmptyObject == <<123,125>>
TextObject == <<123,34,118,97,114,99,34,58,55,125>>

TextPartial == <<123,34,118,97,114,99,34,58,34,120,34,44,34,118,97,114,100,34,58,34,118,34,125>>

GeneralTexts == {TextFive, TextX, TextEmptyObject, TextObject, TextPartial}

\* an entry of the trace; a lookup also records the field as it was when
\* the lookup function was called
Event(op, path, key, found, value, err) ==
    [op |-> op, path |-> path, key |-> key, found |-> found, value |-> value, err |-> err,
     before |-> EmptyStore, after |-> EmptyStore]

Frame(path, sname, ro) ==
    [path |-> path, sname |-> sname, i |-> 1, tagFound |-> FALSE, pc |-> "tag", tag |-> tagData, ro |-> ro]

Running == [status |-> "running", err |-> NoErr]

NoFirst == [root |-> <<>>, store |-> <<>>, result |-> <<>>, trace |-> <<>>]

InitRun(shapes, texts, words, which) ==
    /\ run = which
    /\ first = NoFirst
    /\ arg \in ArgKinds
    /\ root \in shapes
    /\ arg # "ptr" => root = CHOOSE r \in shapes : TRUE
    /\ word \in words
    /\ lookupRange = texts
    /\ \E filled \in BOOLEAN :
          /\ arg # "ptr" => ~filled
          /\ store = FieldCells(root, 1, <<>>, filled, 0)
    /\ pre = store
    /\ stack = <<>>
    /\ ret = [found |-> FALSE, err |-> NoErr]
    /\ result = [status |-> "start", err |-> NoErr]
    /\ nextAddr = 1
    /\ trace = <<>>

InitWith(shapes, texts, words) == InitRun(shapes, texts, words, 0)

Init == InitWith({RecordOf(ds) : ds \in SeqsUpTo(FieldDecls, MaxFields)}, GeneralTexts, {64})

(* ---------------------------------------------------------------------- *)
(* Parser.Get and Parser.parse, a step at a time                          *)
(* ---------------------------------------------------------------------- *)

top == stack[Len(stack)]

FrameFields(fr) == IF fr.sname = "" THEN root ELSE StructDefs[fr.sname]

curField == FrameFields(top)[top.i]

curPath == Append(top.path, top.i)

\* the field's value was reached through an unexported field
curRO == top.ro \/ ~curField.exported

SetTop(fr) == [stack EXCEPT ![Len(stack)] = fr]

\* the innermost call of parse returns (found, err): to the call of parse
\* that made it, or from Get
Return(found, err, tr) ==
    /\ trace' = tr
    /\ IF Len(stack) > 1
       THEN /\ stack' = [SubSeq(stack, 1, Len(stack) - 1) EXCEPT ![Len(stack) - 1].pc = "after"]
            /\ ret' = [found |-> found, err |-> err]
            /\ UNCHANGED result
       ELSE /\ stack' = <<>>
            /\ ret' = [found |-> found, err |-> err]
            /\ result' = [status |-> IF err = NoErr THEN "ok" ELSE "error", err |-> err]

\* Get ends without returning: a panic, or the stack is exhausted
Abort(how, tr) ==
    /\ trace' = tr
    /\ stack' = <<>>
    /\ result' = [status |-> how, err |-> NoErr]
    /\ UNCHANGED ret

\* Get, up to its call of parse
Get ==
    /\ result.status = "start"
    /\ UNCHANGED <<run, first, arg, root, word, lookupRange, store, pre, nextAddr, ret, trace>>
    /\ IF arg = "nil" \/ arg = "nilPtr"
       THEN /\ result' = [status |-> "panic", err |-> NoErr]
            /\ UNCHANGED stack
       ELSE IF arg = "value" \/ arg = "ptrToValue"
       THEN /\ result' = [status |-> "error", err |-> NewErrInvalidConfigType(IF arg = "value" THEN "int" ELSE "*int")]
            /\ UNCHANGED stack
       ELSE /\ result' = Running
            /\ stack' = <<Frame(<<>>, "", FALSE)>>

\* parse, once parseTag has returned t: an error is returned at once; a
\* tagged field is retrieved next
Extracted(t, tr) ==
    IF t.err # NoErr
    THEN Return(top.tagFound, t.err, Append(tr, Event("error", curPath, <<>>, FALSE, <<>>, t.err)))
    ELSE /\ stack' = SetTop([top EXCEPT !.tag = t.tag,
                                        !.tagFound = top.tagFound \/ t.tag.Tagged,
                                        !.pc = IF t.tag.Tagged THEN "retrieve" ELSE "struct"])
         /\ trace' = tr
         /\ UNCHANGED <<ret, result>>

\* parse: the next field's annotation is extracted
ParseField ==
    /\ result.status = "running"
    /\ top.pc = "tag"
    /\ top.i <= Len(FrameFields(top))
    /\ UNCHANGED <<run, first, arg, root, word, lookupRange, store, pre, nextAddr>>
    /\ Extracted(parseTag(curField),
                 Append(trace, [Event("extract", curPath, <<>>, FALSE, <<>>, NoErr)
                                   EXCEPT !.before = SubStore(store, curPath)]))

\* parse: every field has been handled
LoopEnd ==
    /\ result.status = "running"
    /\ top.pc = "tag"
    /\ top.i > Len(FrameFields(top))
    /\ UNCHANGED <<run, first, arg, root, word, lookupRange, store, pre, nextAddr>>
    /\ Return(top.tagFound, NoErr, trace)

\* the trace whose last entry, a lookup, records the field as retrieve left it
Resolved(tr, st) == [tr EXCEPT ![Len(tr)].after = SubStore(st, tr[Len(tr)].path)]

\* Retrieved that goes on to the next step after an error
RetrievedGoesOn(r, tr) ==
    /\ store' = r.st
    /\ nextAddr' = r.na
    /\ IF r.out = "panic" THEN Abort("panic", Resolved(tr, r.st))
       ELSE /\ stack' = SetTop([top EXCEPT !.pc = "struct"])
            /\ trace' = IF r.out = "err"
                        THEN Append(Resolved(tr, r.st), Event("error", curPath, <<>>, FALSE, <<>>, r.err))
                        ELSE Resolved(tr, r.st)
            /\ UNCHANGED <<ret, result>>

\* Retrieved that undoes every assignment of the call when retrieve fails
RetrievedRollsBack(r, tr) ==
    /\ store' = IF r.out = "err" THEN pre ELSE r.st
    /\ nextAddr' = r.na
    /\ IF r.out = "panic" THEN Abort("panic", Resolved(tr, r.st))
       ELSE IF r.out = "err"
       THEN Return(top.tagFound, r.err, Append(Resolved(tr, r.st), Event("error", curPath, <<>>, FALSE, <<>>, r.err)))
       ELSE /\ stack' = SetTop([top EXCEPT !.pc = "struct"])
            /\ trace' = Resolved(tr, r.st)
            /\ UNCHANGED <<ret, result>>

\* Retrieved that resolves the field once more when retrieve has succeeded
RetrievedAgain(r, tr) ==
    /\ store' = r.st
    /\ nextAddr' = r.na
    /\ IF r.out = "panic" THEN Abort("panic", Resolved(tr, r.st))
       ELSE IF r.out = "err"
       THEN Return(top.tagFound, r.err, Append(Resolved(tr, r.st), Event("error", curPath, <<>>, FALSE, <<>>, r.err)))
       ELSE /\ stack' = SetTop([top EXCEPT !.pc = IF Len(tr) < 4 THEN "retrieve" ELSE "struct"])
            /\ trace' = Resolved(tr, r.st)
            /\ UNCHANGED <<ret, result>>

\* parse, once retrieve has returned r: an error is returned at once
Retrieved(r, tr) ==
    /\ store' = r.st
    /\ nextAddr' = r.na
    /\ IF r.out = "panic" THEN Abort("panic", Resolved(tr, r.st))
       ELSE IF r.out = "err"
       THEN Return(top.tagFound, r.err, Append(Resolved(tr, r.st), Event("error", curPath, <<>>, FALSE, <<>>, r.err)))
       ELSE /\ stack' = SetTop([top EXCEPT !.pc = "struct"])
            /\ trace' = Resolved(tr, r.st)
            /\ UNCHANGED <<ret, result>>

\* a lookup function that is a function of the name: it answers the key as
\* it answered it in the lookups of tr
SameAnswer(tr, key, found, value) ==
    \A i \in DOMAIN tr :
       (tr[i].op = "lookup" /\ tr[i].key = key) =>
           (tr[i].found = found /\ tr[i].value = value)

\* parse: a tagged field is resolved; the lookup function answers
Retrieve ==
    /\ result.status = "running"
    /\ top.pc = "retrieve"
    /\ UNCHANGED <<run, first, arg, root, word, lookupRange, pre>>
    /\ \E found \in BOOLEAN, value \in lookupRange \cup {<<>>} :
          /\ found \/ value = <<>>
          /\ found => value \in lookupRange
          /\ run # 0 => SameAnswer(first.trace \o trace, top.tag.Name, found, value)
          /\ Retrieved(retrieve(curField.type, top.tag, curPath, curRO, store, nextAddr, word, found, value),
                       Append(trace, [Event("lookup", curPath, top.tag.Name, found, value, NoErr)
                                         EXCEPT !.before = SubStore(store, curPath)]))

\* parse: a structure, or a pointer to one, is parsed in turn; any other
\* field is done
Descend ==
    /\ result.status = "running"
    /\ top.pc = "struct"
    /\ UNCHANGED <<run, first, arg, root, word, lookupRange, pre>>
    /\ LET t == curField.type
           isNil == t.k = "ptr" /\ store[curPath].addr = NilAddr
       IN  IF ~(IsStruct(t) \/ IsPtrToStruct(t))
           THEN /\ stack' = SetTop([top EXCEPT !.i = top.i + 1, !.pc = "tag"])
                /\ UNCHANGED <<store, nextAddr, ret, result, trace>>
           ELSE IF isNil /\ curRO
           THEN /\ Abort("panic", trace)
                /\ UNCHANGED <<store, nextAddr>>
           ELSE IF Len(stack) >= MaxDepth
           THEN /\ Abort("overflow", trace)
                /\ UNCHANGED <<store, nextAddr>>
           ELSE /\ store' = IF isNil THEN NewAt(store, t, curPath, nextAddr) ELSE store
                /\ nextAddr' = IF isNil THEN nextAddr + 1 ELSE nextAddr
                /\ stack' = Append(stack, Frame(curPath, t.e, curRO))
                /\ trace' = IF isNil THEN Append(trace, Event("alloc", curPath, <<>>, FALSE, <<>>, NoErr)) ELSE trace
                /\ UNCHANGED <<ret, result>>

\* AfterParse that handles the error of the nested call first
AfterParseErrorFirst ==
    /\ result.status = "running"
    /\ top.pc = "after"
    /\ UNCHANGED <<run, first, arg, root, word, lookupRange, store, pre, nextAddr>>
    /\ IF ret.err # NoErr
       THEN Return(top.tagFound, ret.err, trace)
       ELSE IF top.tag.Tagged /\ ret.found
       THEN LET e == NewErrNestedTags(curField.name, top.tag.Name)
            IN  Return(top.tagFound, e, Append(trace, Event("error", curPath, <<>>, FALSE, <<>>, e)))
       ELSE /\ stack' = SetTop([top EXCEPT !.i = top.i + 1, !.pc = "tag"])
            /\ UNCHANGED <<ret, result, trace>>

\* AfterParse without the test for nested annotations
AfterParseUnchecked ==
    /\ result.status = "running"
    /\ top.pc = "after"
    /\ UNCHANGED <<run, first, arg, root, word, lookupRange, store, pre, nextAddr>>
    /\ IF ret.err # NoErr
       THEN Return(top.tagFound, ret.err, trace)
       ELSE /\ stack' = SetTop([top EXCEPT !.i = top.i + 1, !.pc = "tag"])
            /\ UNCHANGED <<ret, result, trace>>

\* parse: the call for a nested structure has returned
AfterParse ==
    /\ result.status = "running"
    /\ top.pc = "after"
    /\ UNCHANGED <<run, first, arg, root, word, lookupRange, store, pre, nextAddr>>
    /\ IF top.tag.Tagged /\ ret.found
       THEN LET e == NewErrNestedTags(curField.name, top.tag.Name)
            IN  Return(top.tagFound, e, Append(trace, Event("error", curPath, <<>>, FALSE, <<>>, e)))
       ELSE IF ret.err # NoErr
       THEN Return(top.tagFound, ret.err, trace)
       ELSE /\ stack' = SetTop([top EXCEPT !.i = top.i + 1, !.pc = "tag"])
            /\ UNCHANGED <<ret, result, trace>>

RECURSIVE Perms(_)
\* the orders in which the tokens of toks can be written
Perms(toks) ==
    IF Len(toks) = 0 THEN {<<>>}
    ELSE UNION {{<<toks[i]>> \o t :
                    t \in Perms(SubSeq(toks, 1, i - 1) \o SubSeq(toks, i + 1, Len(toks)))} :
                i \in 1..Len(toks)}

\* the annotations with the name of raw and its modifiers in any order
Reorderings(raw) ==
    {Join(<<Split(raw, 44)[1]>> \o t) : t \in Perms(Tail(Split(raw, 44)))}

\* the structure types that differ from fields in the order of the modifiers
\* of their annotations only
Reordered(fields) ==
    {r \in [DOMAIN fields -> UNION {{[fields[i] EXCEPT !.raw = w] : w \in Reorderings(fields[i].raw)}
                                       : i \in DOMAIN fields}] :
        \A i \in DOMAIN fields : [r[i] EXCEPT !.raw = fields[i].raw] = fields[i]}

\* Get is called a second time, with the same lookup function, on a record
\* that is as the first record was before its call and whose annotations
\* list the same modifiers in another order
Rerun ==
    /\ run = 1
    /\ result.status \in {"ok", "error", "panic", "overflow"}
    /\ run' = 2
    /\ first' = [root |-> root, store |-> store, result |-> result, trace |-> trace]
    /\ root' \in Reordered(root)
    /\ store' = pre
    /\ stack' = <<>>
    /\ ret' = [found |-> FALSE, err |-> NoErr]
    /\ result' = [status |-> "start", err |-> NoErr]
    /\ nextAddr' = 1
    /\ trace' = <<>>
    /\ UNCHANGED <<arg, word, lookupRange, pre>>

Next == Get \/ ParseField \/ LoopEnd \/ Retrieve \/ Descend \/ AfterParse

Spec == Init /\ [][Next]_vars

(* ---------------------------------------------------------------------- *)
(* Scalar coercion: records of one field, every integer kind, both widths *)
(* of int and uint                                                        *)
(* ---------------------------------------------------------------------- *)

CoerceDecls ==
    { Decl(Ty(k, ""), TRUE, <<NameB>>, TRUE) : k \in IntKinds \cup UintKinds }
    \cup { Decl(Ty("ptr", k), TRUE, <<NameB>>, TRUE) : k \in {"int8", "int64", "uint16", "uint"} }
    \cup { Decl(Ty("ptr", "int8"), TRUE, <<NameB, TokJSON>>, TRUE),
           Decl(Ty("int16", ""), TRUE, <<NameB, TokJSON>>, TRUE),
           Decl(Ty("string", ""), TRUE, <<NameA>>, TRUE),
           Decl(Ty("ptr", "string"), TRUE, <<NameA, TokOptional>>, TRUE),
           Decl(Ty("string", ""), TRUE, <<NameA, TokBase64>>, TRUE),
           Decl(Ty("bool", ""), TRUE, <<NameA>>, TRUE),
           Decl(Ty("ptr", "bool"), TRUE, <<NameA>>, TRUE),
           Decl(Ty("bytes", ""), TRUE, <<NameA>>, TRUE),
           Decl(Ty("ptr", "int8"), TRUE, <<NameB, TokBase64>>, TRUE),
           Decl(Ty("struct", "Tagd"), FALSE, <<>>, TRUE),
           Decl(Ty("struct", "Tagd"), TRUE, <<NameN, TokJSON, TokOptional>>, TRUE),
           Decl(Ty("interface", ""), TRUE, <<NameA>>, TRUE),
           Decl(Ty("interface", ""), TRUE, <<NameA, TokBase64>>, TRUE),
           Decl(Ty("ints", ""), TRUE, <<NameA, TokOptional>>, TRUE),
           Decl(Ty("struct", "Plain"), TRUE, <<NameN>>, TRUE),
           Decl(Ty("ptr", "Plain"), TRUE, <<NameN>>, TRUE),
           Decl(Ty("ptr", "Plain"), TRUE, <<NameN>>, FALSE) }

\* the texts the lookup function may return: 5 -5 +5 007 -0 and the ends of
\* the ranges of the widths (127 128 -128 -129 255 256 500 32767 32768 -32769
\* 65536 2147483647 2147483648 -2147483649 4294967296 9223372036854775807
\* 9223372036854775808 -9223372036854775808 -9223372036854775809
\* 18446744073709551615 18446744073709551616), x, true, F, the empty text,
\* NQ== (5 in base64) and N (no base64)
CoerceTexts ==
    { <<53>>,
      <<45,53>>,
      <<43,53>>,
      <<48,48,55>>,
      <<45,48>>,
      <<49,50,55>>,
      <<49,50,56>>,
      <<45,49,50,56>>,
      <<45,49,50,57>>,
      <<50,53,53>>,
      <<50,53,54>>,
      <<53,48,48>>,
      <<51,50,55,54,55>>,
      <<51,50,55,54,56>>,
      <<45,51,50,55,54,57>>,
      <<54,53,53,51,54>>,
      <<50,49,52,55,52,56,51,54,52,55>>,
      <<50,49,52,55,52,56,51,54,52,56>>,
      <<45,50,49,52,55,52,56,51,54,52,57>>,
      <<52,50,57,52,57,54,55,50,57,54>>,
      <<57,50,50,51,51,55,50,48,51,54,56,53,52,55,55,53,56,48,55>>,
      <<57,50,50,51,51,55,50,48,51,54,56,53,52,55,55,53,56,48,56>>,
      <<45,57,50,50,51,51,55,50,48,51,54,56,53,52,55,55,53,56,48,56>>,
      <<45,57,50,50,51,51,55,50,48,51,54,56,53,52,55,55,53,56,48,57>>,
      <<49,56,52,52,54,55,52,52,48,55,51,55,48,57,53,53,49,54,49,53>>,
      <<49,56,52,52,54,55,52,52,48,55,51,55,48,57,53,53,49,54,49,54>>,
      <<120>>,
      <<116,114,117,101>>,
      <<70>>,
      <<>>,
      <<78,81,61,61>>,
      <<78>> }

InitCoerce == InitWith({RecordOf(<<d>>) : d \in CoerceDecls}, CoerceTexts, {32, 64})

SpecCoerce == InitCoerce /\ [][Next]_vars

(* ---------------------------------------------------------------------- *)
(* What the properties speak of                                           *)
(* ---------------------------------------------------------------------- *)

\* Get has ended: it returned, or the process was aborted
Done == result.status \in {"ok", "error", "panic", "overflow"}

RECURSIVE FieldIn(_, _)
\* the field that the path p leads to from the fields
FieldIn(fields, p) ==
    IF Len(p) = 1 THEN fields[p[1]]
    ELSE FieldIn(StructDefs[fields[p[1]].type.e], Tail(p))

FieldAt(p) == FieldIn(root, p)

TagAt(p) == parseTag(FieldAt(p)).tag

\* the external name a field declares: the text before the first comma
ExternalName(p) == SubSeq(FieldAt(p).raw, 1,
                          IF IndexFrom(FieldAt(p).raw, 44, 1) = 0 THEN Len(FieldAt(p).raw)
                          ELSE IndexFrom(FieldAt(p).raw, 44, 1) - 1)

\* the fields that enclose the field at p, and those of them that are annotated
Ancestors(p) == {SubSeq(p, 1, k) : k \in 1..(Len(p) - 1)}

AnnotatedAncestors(p) == {a \in Ancestors(p) : FieldAt(a).tagged}

Lookups == {i \in DOMAIN trace : trace[i].op = "lookup"}

Errors == {i \in DOMAIN trace : trace[i].op = "error"}

\* the resolution of the field looked up at step i of the trace failed
ResolveFailed(i) ==
    /\ i + 1 \in DOMAIN trace
    /\ trace[i + 1].op = "error"
    /\ trace[i + 1].path = trace[i].path
    /\ trace[i + 1].err.kind # "NestedTags"

\* the field looked up at step i is now as it was when it was looked up
Unmodified(i) == SubStore(store, trace[i].path) = trace[i].before

\* the field at p is as it was before the call
AsBeforeCall(p) == SubStore(pre, p) # EmptyStore => SubStore(store, p) = SubStore(pre, p)

StructTyped(t) == IsStruct(t) \/ IsPtrToStruct(t)

RECURSIVE StructsWithin(_)
\* the structure types reachable from the structure types names
StructsWithin(names) ==
    LET more == names \cup
                (UNION {{StructDefs[n][j].type.e : j \in 1..Len(StructDefs[n])} : n \in names}
                    \cap StructNames)
    IN  IF more = names THEN names ELSE StructsWithin(more)

\* a field of one of the structure types is annotated
TagsIn(names) == \E n \in names : \E j \in 1..Len(StructDefs[n]) : StructDefs[n][j].tagged

\* no field of the record, at any depth, is annotated
NoTagsAnywhere ==
    /\ \A j \in 1..Len(root) : ~root[j].tagged
    /\ ~TagsIn(StructsWithin({root[j].type.e : j \in 1..Len(root)} \cap StructNames))

(* ---------------------------------------------------------------------- *)
(* Properties                                                             *)
(* ---------------------------------------------------------------------- *)

\* C1: every annotated optional field whose name the lookup function reports
\* as not found is resolved without error and holds its pre-call value once
\* Get has ended; an empty pointer stays empty.  (Fails: an optional pointer
\* to a structure is given storage by parse all the same.)
C1Claim ==
    Done => \A i \in Lookups :
        (~trace[i].found /\ TagAt(trace[i].path).Optional)
            => ~ResolveFailed(i) /\ AsBeforeCall(trace[i].path)

\* C2: a record without annotations at any depth makes Get return no
\* error, the lookup function is never called and every field, empty
\* pointers to structures included, stays as it was.  (Fails: parse gives
\* storage to every empty pointer to a structure, panics on an unexported
\* one and never ends on a type that refers to itself.)
C2Claim ==
    (arg = "ptr" /\ NoTagsAnywhere)
        => /\ result.status \in {"start", "running", "ok"}
           /\ Lookups = {}
           /\ store = pre

\* C4: whatever is handed to Get, Get returns: success or an error of one
\* of the nine kinds; it never panics or aborts.  (Fails: Get(nil), a nil
\* pointer to a structure, unexported fields.)
C4Claim ==
    /\ result.status \notin {"panic", "overflow"}
    /\ result.status = "error" => result.err.kind \in ErrorKinds

\* C6: an annotated field that is a structure, or a pointer to one, whose
\* own resolution succeeds and inside which, at any depth, a field is
\* annotated makes Get fail with NestedTags.  (Fails: an annotation below
\* an un-annotated sub-structure goes unnoticed.)
C6Claim ==
    Done => \A i \in Lookups :
        ( /\ StructTyped(FieldAt(trace[i].path).type)
          /\ ~ResolveFailed(i)
          /\ TagsIn(StructsWithin({FieldAt(trace[i].path).type.e})) )
            => result.status = "error" /\ result.err.kind = "NestedTags"

\* C7: an annotated pointer field that references storage before the call
\* references the same storage after Get, on the JSON path and on the
\* scalar path.  (Fails: the scalar path always allocates.)
C7Claim ==
    Done => \A p \in DOMAIN pre :
        (FieldAt(p).type.k = "ptr" /\ FieldAt(p).tagged /\ pre[p].addr # NilAddr)
            => p \in DOMAIN store /\ store[p].addr = pre[p].addr

\* the NestedTags error of the annotated field at a
NestedTagsOf(a) == NewErrNestedTags(FieldAt(a).name, ExternalName(a))

\* the lookup at step i is of a field that is not optional and was not found
RequiredAbsent(i) == ~trace[i].found /\ ~TagAt(trace[i].path).Optional

\* C3 as stated: a field that is not optional and whose name is not found
\* makes Get fail with VarNotFound carrying the field's name, and the field
\* is not modified.  (No earlier field has failed: the field was reached.)
C3Claim ==
    Done => \A i \in Lookups :
        RequiredAbsent(i)
            => /\ result.status = "error"
               /\ result.err = NewErrVarNotFound(ExternalName(trace[i].path))
               /\ Unmodified(i)

\* C3, amended: such a field makes Get fail and is not modified; the error
\* is VarNotFound carrying the field's name, unless the field lies inside an
\* annotated structure field: then it may be NestedTags naming an enclosing
\* annotated field instead, and it is NestedTags when the field that
\* directly encloses it is annotated.
C3Amended ==
    Done => \A i \in Lookups :
        RequiredAbsent(i)
            => /\ result.status = "error"
               /\ Unmodified(i)
               /\ \/ result.err = NewErrVarNotFound(ExternalName(trace[i].path))
                  \/ \E a \in AnnotatedAncestors(trace[i].path) : result.err = NestedTagsOf(a)
               /\ SubSeq(trace[i].path, 1, Len(trace[i].path) - 1) \in AnnotatedAncestors(trace[i].path)
                      => result.err.kind = "NestedTags"

\* a required field inside an annotated structure was not found, and Get
\* returned NestedTags
C3Witness ==
    /\ Done
    /\ \E i \in Lookups :
          /\ RequiredAbsent(i)
          /\ AnnotatedAncestors(trace[i].path) # {}
          /\ result.err.kind = "NestedTags"

\* the lookup at step i is of a structure field annotated json whose
\* structure type declares annotations on its own fields
NestedConflict(i) ==
    /\ StructTyped(FieldAt(trace[i].path).type)
    /\ TagAt(trace[i].path).JSON
    /\ TagsIn({FieldAt(trace[i].path).type.e})

\* C5 as stated: such a field makes Get fail with NestedTags naming the
\* field and its external name, whatever the lookup function answers.
C5Claim ==
    Done => \A i \in Lookups :
        NestedConflict(i) => result.status = "error" /\ result.err = NestedTagsOf(trace[i].path)

\* the first field of the structure type is an exported scalar with a
\* well-formed annotation
FirstFieldAnnotated(e) ==
    /\ StructDefs[e][1].tagged
    /\ StructDefs[e][1].exported
    /\ parseTag(StructDefs[e][1]).err = NoErr
    /\ StructDefs[e][1].type.k \notin {"ptr", "struct"}

\* C5, amended: such a field of the record, exported, makes Get fail with
\* NestedTags naming it when its own resolution succeeds (the name is found
\* with a payload that decodes, or is not found and the field is optional)
\* and the traversal of its fields extracts an annotation; when its own
\* resolution fails, Get fails with that error, VarNotFound or DecodeFailure.
C5Amended ==
    Done => \A i \in Lookups :
        ( /\ NestedConflict(i)
          /\ Len(trace[i].path) = 1
          /\ FieldAt(trace[i].path).exported
          /\ FirstFieldAnnotated(FieldAt(trace[i].path).type.e) )
            => /\ result.status = "error"
               /\ IF ResolveFailed(i)
                  THEN /\ result.err = trace[i + 1].err
                       /\ result.err.kind \in {"VarNotFound", "DecodeFailure"}
                       /\ result.err.kind = "VarNotFound" <=> ~trace[i].found
                  ELSE result.err = NestedTagsOf(trace[i].path)

\* the payload of such a field was found and decoded, and Get returned
\* NestedTags
C5Witness ==
    /\ Done
    /\ \E i \in Lookups :
          /\ NestedConflict(i)
          /\ trace[i].found
          /\ ~ResolveFailed(i)
          /\ result.err = NestedTagsOf(trace[i].path)

FirstError == CHOOSE i \in Errors : \A j \in Errors : i <= j

\* C10 as stated: the error Get returns is the one the first failing field
\* produced, and after that failure nothing is extracted, looked up or
\* resolved.
C10Claim ==
    (Done /\ result.status = "error" /\ Errors # {})
        => /\ result.err = trace[FirstError].err
           /\ \A j \in DOMAIN trace : j > FirstError => trace[j].op = "error"

\* C10, amended: a failure always makes Get fail; after the first failure
\* nothing is extracted, looked up or resolved, and the store does not
\* change; the error returned is the one the first failing field produced,
\* unless that field lies inside an annotated structure field: then every
\* later error is NestedTags of an annotated field enclosing the one before,
\* and the last of them is returned.
C10Amended ==
    Done =>
        /\ Errors # {} => result.status = "error"
        /\ (result.status = "error" /\ Errors = {}) => result.err.kind = "InvalidConfigType"
        /\ Errors # {} =>
              /\ result.err = trace[Len(trace)].err
              /\ \A j \in DOMAIN trace : j > FirstError =>
                    /\ trace[j].op = "error"
                    /\ trace[j].path \in AnnotatedAncestors(trace[j - 1].path)
                    /\ trace[j].err = NestedTagsOf(trace[j].path)
              /\ AnnotatedAncestors(trace[FirstError].path) = {} => result.err = trace[FirstError].err

\* the error of a field inside an annotated structure was replaced by
\* NestedTags
C10Witness ==
    /\ Done
    /\ result.status = "error"
    /\ Cardinality(Errors) >= 2
    /\ result.err # trace[FirstError].err

\* base-10 integer text: an optional sign and one digit or more
Unsigned(s) == IF Len(s) > 0 /\ s[1] \in {43, 45} THEN Tail(s) ELSE s

IsIntText(s) == Len(Unsigned(s)) > 0 /\ \A j \in 1..Len(Unsigned(s)) : IsDigit(Unsigned(s)[j])

\* the number the text denotes: its magnitude and whether it is below zero
TextMag(s) == StripZeros([j \in 1..Len(Unsigned(s)) |-> Unsigned(s)[j] - 48])

TextNeg(s) == s[1] = 45 /\ TextMag(s) # <<>>

\* the number the text denotes is outside the range of the kind k
OutsideWidth(k, s) ==
    IF k \in IntKinds
    THEN IF TextNeg(s) THEN MagLess(MinIntMagOf(BitsOf(k, word)), TextMag(s))
         ELSE MagLess(MaxIntOf(BitsOf(k, word)), TextMag(s))
    ELSE TextNeg(s) \/ MagLess(MaxUintOf(BitsOf(k, word)), TextMag(s))

\* the 64-bit parser of the kind accepts the text: it is within 64 bits
\* and, for an unsigned kind, carries no sign
Within64(k, s) ==
    IF k \in IntKinds
    THEN IF TextNeg(s) THEN MagLeq(TextMag(s), MinInt64Mag) ELSE MagLeq(TextMag(s), MaxInt64)
    ELSE s[1] \notin {43, 45} /\ MagLeq(TextMag(s), MaxUint64)

\* the lookup at step i found, for an integer field annotated with its name
\* alone, integer text that denotes a number outside the field's width
OutOfRange(i) ==
    /\ trace[i].found
    /\ FieldAt(trace[i].path).type.k \in IntKinds \cup UintKinds
    /\ ~TagAt(trace[i].path).JSON
    /\ ~TagAt(trace[i].path).Base64
    /\ IsIntText(trace[i].value)
    /\ OutsideWidth(FieldAt(trace[i].path).type.k, trace[i].value)

OverflowOf(i) ==
    NewErrOverflow(FieldAt(trace[i].path).type.k, ExternalName(trace[i].path), trace[i].value)

ScalarKind(p) == IF FieldAt(p).type.k = "ptr" THEN FieldAt(p).type.e ELSE FieldAt(p).type.k

\* the text handed on after the base64 stage
Payload(i) ==
    IF TagAt(trace[i].path).Base64 THEN B64Decode(trace[i].value).bytes ELSE trace[i].value

\* the lookup at step i found, for a scalar field, a value that is valid and
\* in range for the field's kind
ValidScalar(i) ==
    /\ trace[i].found
    /\ TagAt(trace[i].path).Base64 => B64Decode(trace[i].value).ok
    /\ \/ ScalarKind(trace[i].path) \in {"string", "bytes"}
       \/ ScalarKind(trace[i].path) = "bool" /\ Payload(i) \in TrueTexts \cup FalseTexts
       \/ /\ ScalarKind(trace[i].path) \in IntKinds \cup UintKinds
          /\ IsIntText(Payload(i))
          /\ ~OutsideWidth(ScalarKind(trace[i].path), Payload(i))

\* the value the text denotes, in the representation of the field's kind
ParsedValue(i) ==
    IF ScalarKind(trace[i].path) \in {"string", "bytes"} THEN [neg |-> FALSE, ds |-> Payload(i)]
    ELSE IF ScalarKind(trace[i].path) = "bool"
    THEN [neg |-> FALSE, ds |-> IF Payload(i) \in TrueTexts THEN <<1>> ELSE <<>>]
    ELSE [neg |-> TextNeg(Payload(i)), ds |-> TextMag(Payload(i))]

\* the pointer field at p references storage allocated during the call
NewStorage(p) ==
    /\ store[p].addr # NilAddr
    /\ store[p].addr \notin {pre[q].addr : q \in DOMAIN pre}

\* C9 as stated: after a successful Get a scalar field whose name was found
\* with a valid value holds the parsed value, and a pointer to a scalar
\* references newly allocated storage that holds it.
C9Claim ==
    (Done /\ result.status = "ok") => \A i \in Lookups :
        ValidScalar(i)
            => /\ store[trace[i].path].v = ParsedValue(i)
               /\ FieldAt(trace[i].path).type.k = "ptr" => NewStorage(trace[i].path)

\* C9, amended: after a successful Get a scalar field whose name was found
\* with a valid value holds the parsed value, and a pointer to a scalar
\* references storage that holds it: newly allocated storage, except that a
\* field annotated json that referenced storage before the call keeps that
\* storage.
C9Amended ==
    (Done /\ result.status = "ok") => \A i \in Lookups :
        ValidScalar(i)
            => /\ store[trace[i].path].v = ParsedValue(i)
               /\ FieldAt(trace[i].path).type.k = "ptr"
                     => IF TagAt(trace[i].path).JSON /\ trace[i].before[trace[i].path].addr # NilAddr
                        THEN store[trace[i].path].addr = trace[i].before[trace[i].path].addr
                        ELSE NewStorage(trace[i].path)

\* a pointer that referenced storage before the call was set on the scalar
\* path and references new storage holding the parsed value
C9Witness ==
    /\ Done
    /\ result.status = "ok"
    /\ \E i \in Lookups :
          /\ ValidScalar(i)
          /\ FieldAt(trace[i].path).type.k = "ptr"
          /\ pre[trace[i].path].addr # NilAddr
          /\ NewStorage(trace[i].path)
          /\ store[trace[i].path].v = ParsedValue(i)
          /\ store[trace[i].path].v # pre[trace[i].path].v

(* ---------------------------------------------------------------------- *)
(* Two calls of Get on records whose annotations differ in the order of   *)
(* their modifiers                                                        *)
(* ---------------------------------------------------------------------- *)

OrderDecls ==
    { Decl(Ty("string", ""), TRUE, <<NameA, TokBase64, TokJSON>>, TRUE),
      Decl(Ty("string", ""), TRUE, <<NameA, TokBase64, TokOptional>>, TRUE),
      Decl(Ty("bytes", ""), TRUE, <<NameA, TokOptional, TokBase64>>, TRUE),
      Decl(Ty("int8", ""), TRUE, <<NameB, TokJSON, TokBase64>>, TRUE),
      Decl(Ty("ptr", "int8"), TRUE, <<NameB, TokOptional, TokJSON>>, TRUE),
      Decl(Ty("struct", "Plain"), TRUE, <<NameN, TokBase64, TokJSON>>, TRUE),
      Decl(Ty("ptr", "Plain"), TRUE, <<NameN, TokJSON, TokOptional>>, TRUE),
      Decl(Ty("ptr", "Plain"), TRUE, <<NameN, TokOptional, TokBase64, TokJSON>>, TRUE),
      Decl(Ty("struct", "Tagd"), TRUE, <<NameN, TokJSON, TokOptional>>, TRUE),
      Decl(Ty("struct", "Jsnd"), TRUE, <<NameN, TokJSON>>, TRUE),
      Decl(Ty("struct", "Wrap"), TRUE, <<NameN, TokJSON>>, TRUE),
      Decl(Ty("struct", "Deep"), FALSE, <<>>, TRUE) }

\* "5", "{}", "N", and the base64 encodings of "5", "{}", {"varc":7} and "v"
\* in quotes
OrderTexts ==
    { TextFive, TextEmptyObject, <<78>>,
      <<78,81,61,61>>, <<101,51,48,61>>,
      <<101,121,74,50,89,88,74,106,73,106,111,51,102,81,61,61>>,
      <<73,110,89,105>> }

InitOrder ==
    InitRun({RecordOf(<<d>>) : d \in OrderDecls}
                \cup {RecordOf(<<d, e>>) : d \in OrderDecls, e \in OrderDecls},
            OrderTexts, {64}, 1)

NextOrder == Next \/ Rerun

SpecOrder == InitOrder /\ [][NextOrder]_vars

(* ---------------------------------------------------------------------- *)
(* C11: no rollback and no over-reach on failure                          *)
(* ---------------------------------------------------------------------- *)

\* the field at q comes after the field at p in the order of traversal: it
\* is inside it, or it follows it in an enclosing structure
ComesAfter(p, q) ==
    /\ p # q
    /\ \/ IsPrefix(p, q)
       \/ \E k \in 1..Len(p) :
             /\ k <= Len(q)
             /\ SubSeq(p, 1, k - 1) = SubSeq(q, 1, k - 1)
             /\ p[k] < q[k]

\* the field looked up at step i was found and resolved without an error
ResolvedAt(i) == trace[i].op = "lookup" /\ trace[i].found /\ ~ResolveFailed(i)

\* after step i the traversal looked up or allocated the field at q, or a
\* field that encloses it
TouchedLater(i, q) ==
    \E j \in DOMAIN trace :
       /\ j > i
       /\ trace[j].op \in {"lookup", "alloc"}
       /\ IsPrefix(trace[j].path, q)

\* C11: after a failed Get, every field that was successfully resolved
\* before the failing point holds the value its resolution gave it, and
\* every field that comes after the failing field in traversal order holds
\* its value of before the call.
C11Claim ==
    (Done /\ result.status = "error" /\ Errors # {}) =>
        /\ \A i \in DOMAIN trace :
              (i < FirstError /\ ResolvedAt(i)) =>
                  SubStore(store, trace[i].path) = trace[i].after
        /\ \A q \in DOMAIN pre :
              ComesAfter(trace[FirstError].path, q) =>
                  q \in DOMAIN store /\ store[q] = pre[q]

\* C11, amended: after a failed Get, every field that was successfully
\* resolved before the failing point holds the value its resolution gave
\* it, except where the traversal later looked up or allocated a field
\* inside it; and every field that comes after the failing field in
\* traversal order and is not inside the failing field holds its value of
\* before the call.
C11Amended ==
    (Done /\ result.status = "error" /\ Errors # {}) =>
        /\ \A i \in DOMAIN trace :
              (i < FirstError /\ ResolvedAt(i)) =>
                  \A q \in DOMAIN trace[i].after \cup DOMAIN SubStore(store, trace[i].path) :
                     \/ TouchedLater(i, q)
                     \/ q \in DOMAIN trace[i].after /\ q \in DOMAIN store
                           /\ store[q] = trace[i].after[q]
        /\ \A q \in DOMAIN pre \cup DOMAIN store :
              (ComesAfter(trace[FirstError].path, q) /\ ~IsPrefix(trace[FirstError].path, q)) =>
                  q \in DOMAIN pre /\ q \in DOMAIN store /\ store[q] = pre[q]

\* Get has failed at the second field after the first one was resolved to
\* a new value, and the failing field is not as it was before the call
C11Witness ==
    /\ Done /\ result.status = "error" /\ Errors # {}
    /\ \E i \in DOMAIN trace :
          /\ i < FirstError /\ ResolvedAt(i)
          /\ trace[i].after # trace[i].before
          /\ trace[i].path # trace[FirstError].path
          /\ ~IsPrefix(trace[i].path, trace[FirstError].path)
    /\ SubStore(store, trace[FirstError].path) # SubStore(pre, trace[FirstError].path)

(* ---------------------------------------------------------------------- *)
(* C12: the order of the modifiers of an annotation does not matter       *)
(* ---------------------------------------------------------------------- *)

\* C12: for two annotations with the same name whose modifier lists are
\* permutations of each other, Get on the same record with the same lookup
\* function yields the same final record and the same result: success, or
\* the same error.
C12Claim ==
    (run = 2 /\ Done) => (store = first.store /\ result = first.result)

\* the second call has ended on a record that has a field whose modifiers
\* are written in another order than for the first call, base64 and json
\* among them, and that field was found and resolved to a new value
C12Witness ==
    /\ run = 2 /\ Done /\ result.status = "ok"
    /\ \E i \in DOMAIN trace :
          /\ ResolvedAt(i)
          /\ trace[i].after # trace[i].before
          /\ FieldAt(trace[i].path).raw # first.root[trace[i].path[1]].raw
          /\ TagAt(trace[i].path).Base64 /\ TagAt(trace[i].path).JSON

(* ---------------------------------------------------------------------- *)
(* C13: binary decoding is the first stage                                *)
(* ---------------------------------------------------------------------- *)

\* the character of the base64 alphabet for the six bits n
B64Chr(n) ==
    IF n < 26 THEN 65 + n
    ELSE IF n < 52 THEN 71 + n
    ELSE IF n < 62 THEN n - 4
    ELSE IF n = 62 THEN 43 ELSE 47

RECURSIVE B64Encode(_)
\* the standard base64 encoding, with padding, of the bytes b
B64Encode(b) ==
    IF Len(b) = 0 THEN <<>>
    ELSE IF Len(b) = 1
    THEN <<B64Chr(b[1] \div 4), B64Chr((b[1] % 4) * 16), 61, 61>>
    ELSE IF Len(b) = 2
    THEN <<B64Chr(b[1] \div 4), B64Chr((b[1] % 4) * 16 + (b[2] \div 16)),
           B64Chr((b[2] % 16) * 4), 61>>
    ELSE <<B64Chr(b[1] \div 4), B64Chr((b[1] % 4) * 16 + (b[2] \div 16)),
           B64Chr((b[2] % 16) * 4 + (b[3] \div 64)), B64Chr(b[3] % 64)>>
         \o B64Encode(SubSeq(b, 4, Len(b)))

\* "5", "{}", {"varc":7}, "v" in quotes
Blobs == {TextFive, TextEmptyObject, TextObject, <<34,118,34>>}

\* a step of Retrieve on a field annotated with base64 that is found
Base64Step ==
    /\ result.status = "running"
    /\ top.pc = "retrieve"
    /\ top.tag.Base64
    /\ Len(trace') > Len(trace)
    /\ trace'[Len(trace) + 1].found

\* the step did what the next stage returns, r, when it is handed b
HandedOn(r, b) ==
    /\ store' = r.st
    /\ nextAddr' = r.na
    /\ (r.out = "panic") <=> (result'.status = "panic")
    /\ r.out = "ok" =>
          /\ Len(trace') = Len(trace) + 1
          /\ (~top.tag.JSON /\ curField.type.k \in {"string", "bytes"}) =>
                store'[curPath].v = [neg |-> FALSE, ds |-> b]
          /\ (~top.tag.JSON /\ curField.type.k = "ptr" /\ curField.type.e \in {"string", "bytes"}) =>
                store'[curPath].v = [neg |-> FALSE, ds |-> b]
    /\ r.out = "err" =>
          /\ Len(trace') = Len(trace) + 2
          /\ [trace'[Len(trace) + 2].err EXCEPT !.value = r.err.value] = r.err

\* the step returned the failure of the base64 stage and did nothing else
NothingAttempted ==
    /\ store' = store
    /\ nextAddr' = nextAddr
    /\ Len(trace') = Len(trace) + 2
    /\ trace'[Len(trace) + 2].err.kind = "DecodeFailure"
    /\ trace'[Len(trace) + 2].err.typ = "base64"

\* C13: for a field annotated with base64 whose looked-up value is the
\* encoding of the bytes b, the next stage (the JSON stage if json is set,
\* coercion otherwise) is handed exactly b, so that a text or byte-blob
\* field ends up equal to b; and if the base64 decoding fails, neither the
\* JSON stage nor coercion is attempted.
C13Claim ==
    [][Base64Step =>
          /\ \A b \in Blobs :
                trace'[Len(trace) + 1].value = B64Encode(b) =>
                    HandedOn(retrieve(curField.type, [top.tag EXCEPT !.Base64 = FALSE], curPath,
                                      curRO, store, nextAddr, word, TRUE, b), b)
          /\ ~B64Decode(trace'[Len(trace) + 1].value).ok => NothingAttempted]_vars

\* a text field annotated with base64 and not json holds "5" after its
\* name was found with the value "NQ==", and Get has ended
C13Witness ==
    /\ Done /\ result.status = "ok"
    /\ \E i \in DOMAIN trace :
          /\ ResolvedAt(i)
          /\ TagAt(trace[i].path).Base64 /\ ~TagAt(trace[i].path).JSON
          /\ FieldAt(trace[i].path).type.k = "string"
          /\ trace[i].value = B64Encode(TextFive)
          /\ trace[i].value # TextFive
          /\ store[trace[i].path].v = [neg |-> FALSE, ds |-> TextFive]

(* ---------------------------------------------------------------------- *)
(* C14: an argument that is no pointer to a structure                     *)
(* ---------------------------------------------------------------------- *)

\* the type of the argument of the kinds that have one and are no pointer
\* to a structure
ArgType == IF arg = "value" THEN "int" ELSE "*int"

\* C14: Get called with an argument that is not a pointer to a structure (a
\* value that is no pointer, a pointer to something that is no structure,
\* nil) fails with InvalidConfigType carrying the type of the argument,
\* looks nothing up and modifies nothing.  (Fails: Get(nil) panics.)
C14Claim ==
    (Done /\ arg \in {"nil", "value", "ptrToValue"}) =>
        /\ result.status = "error"
        /\ result.err = NewErrInvalidConfigType(ArgType)
        /\ Lookups = {}
        /\ store = pre

(* ---------------------------------------------------------------------- *)
(* C15: the validation of an annotation                                   *)
(* ---------------------------------------------------------------------- *)

Modifiers == {TokOptional, TokBase64, TokJSON}

\* the positions after the name, in the tokens of the annotation raw, of
\* the tokens that are no modifier
BadTokens(raw) == {k \in 2..Len(Split(raw, 44)) : Split(raw, 44)[k] \notin Modifiers}

\* the error the validation of the annotation raw is to give, NoErr if none
TagError(raw) ==
    IF Len(Split(raw, 44)[1]) = 0 THEN NewErrMissingNameTag(raw)
    ELSE IF BadTokens(raw) = {} THEN NoErr
    ELSE NewErrInvalidTagOption(raw,
             Split(raw, 44)[CHOOSE k \in BadTokens(raw) : \A j \in BadTokens(raw) : k <= j])

\* step i of the trace extracts an annotation that is not valid
BadTagAt(i) ==
    /\ trace[i].op = "extract"
    /\ FieldAt(trace[i].path).tagged
    /\ TagError(FieldAt(trace[i].path).raw) # NoErr

\* the field extracted at step i was not looked up
NotLookedUp(i) == \A j \in Lookups : trace[j].path # trace[i].path

\* C15: a field with an annotation whose first token is empty makes Get
\* fail with MissingNameTag carrying the annotation; otherwise the first
\* token after the name that is not optional, base64 or json makes Get fail
\* with InvalidTagOption carrying the annotation and that token; the field
\* is not looked up and not modified.
C15Claim ==
    Done => \A i \in DOMAIN trace :
        BadTagAt(i)
            => /\ result.status = "error"
               /\ result.err = TagError(FieldAt(trace[i].path).raw)
               /\ NotLookedUp(i)
               /\ Unmodified(i)

\* C15, amended: such a field fails with MissingNameTag or InvalidTagOption
\* as stated, it is not looked up and not modified, and Get fails; the
\* error Get returns is that error, unless the field lies inside an
\* annotated structure field: then it may be NestedTags naming an enclosing
\* annotated field instead.
C15Amended ==
    Done => \A i \in DOMAIN trace :
        BadTagAt(i)
            => /\ result.status = "error"
               /\ i + 1 \in DOMAIN trace
               /\ trace[i + 1].op = "error"
               /\ trace[i + 1].path = trace[i].path
               /\ trace[i + 1].err = TagError(FieldAt(trace[i].path).raw)
               /\ NotLookedUp(i)
               /\ Unmodified(i)
               /\ \/ result.err = TagError(FieldAt(trace[i].path).raw)
                  \/ \E a \in AnnotatedAncestors(trace[i].path) : result.err = NestedTagsOf(a)
               /\ AnnotatedAncestors(trace[i].path) = {}
                      => result.err = TagError(FieldAt(trace[i].path).raw)

\* Get has failed at a field whose annotation carries two tokens that are
\* no modifiers, after another field was resolved to a new value
C15Witness ==
    /\ Done /\ result.status = "error"
    /\ \E i \in DOMAIN trace :
          /\ BadTagAt(i)
          /\ Cardinality(BadTokens(FieldAt(trace[i].path).raw)) > 1
          /\ \E j \in DOMAIN trace : j < i /\ ResolvedAt(j) /\ trace[j].after # trace[j].before

(* ---------------------------------------------------------------------- *)
(* C16: the lookups of one call                                           *)
(* ---------------------------------------------------------------------- *)

\* C16: during one call of Get the lookup function is never invoked twice
\* with the same name, whatever the record, also when two annotated fields
\* declare the same name.
C16Claim ==
    \A i \in Lookups : \A j \in Lookups : i # j => trace[i].key # trace[j].key

\* C16, amended: during one call of Get the lookup function is invoked at
\* most once for each annotated field, with the name the field declares; it
\* is invoked twice with the same name only for two fields that declare the
\* same name.
C16Amended ==
    \A i \in Lookups :
       /\ trace[i].key = ExternalName(trace[i].path)
       /\ \A j \in Lookups : i # j => trace[i].path # trace[j].path

\* Get has ended after it looked up two fields that declare the same name
C16Witness ==
    /\ Done
    /\ \E i \in Lookups : \E j \in Lookups :
          /\ i < j
          /\ trace[i].key = trace[j].key
          /\ trace[i].path # trace[j].path

(* ---------------------------------------------------------------------- *)
(* C17: what DecodeFailure and CannotParseEnv carry                       *)
(* ---------------------------------------------------------------------- *)

\* the decode stage in which the resolution of the field looked up at step
\* i fails, if it fails: "base64", "json", or "" for the coercion
DecodeStage(i) ==
    IF TagAt(trace[i].path).Base64 /\ ~B64Decode(trace[i].value).ok THEN "base64"
    ELSE IF TagAt(trace[i].path).JSON THEN "json"
    ELSE ""

\* the resolution of the field looked up at step i failed in a decode stage
DecodeFailedAt(i) ==
    /\ trace[i].op = "lookup"
    /\ trace[i].found
    /\ ResolveFailed(i)
    /\ DecodeStage(i) # ""

\* the error e is the DecodeFailure of the lookup at step i: it carries the
\* name, the value as it was looked up, the stage and a cause
DecodeFailureOf(e, i) ==
    /\ e.kind = "DecodeFailure"
    /\ e.key = ExternalName(trace[i].path)
    /\ e.value = trace[i].value
    /\ e.typ = DecodeStage(i)
    /\ e.cause # ""

Indirect(p) == IF FieldAt(p).type.k = "ptr" THEN Elem(FieldAt(p).type) ELSE FieldAt(p).type

SettableKinds == {"bytes", "string", "bool", "float32", "float64"} \cup IntKinds \cup UintKinds

\* C18: an annotated field without json whose name is found and whose kind,
\* after following one indirection, is none of byte blob, text, signed or
\* unsigned integer, floating point or boolean makes Get fail with
\* CannotSetKind carrying that kind, whatever the value looked up.  (Fails:
\* Get panics for a pointer reached through an unexported field.)
C18Claim ==
    Done => \A i \in Lookups :
        (trace[i].found /\ ~TagAt(trace[i].path).JSON
                /\ Indirect(trace[i].path).k \notin SettableKinds)
            => /\ result.status = "error"
               /\ result.err = NewErrCannotSetKind(GoKind(Indirect(trace[i].path)))

(* ---------------------------------------------------------------------- *)
(* C19: a structure annotated with json is a leaf                         *)
(* ---------------------------------------------------------------------- *)

\* the structure-typed fields annotated with json that enclose the field at p
JSONStructsAbove(p) ==
    {a \in AnnotatedAncestors(p) : TagAt(a).JSON /\ StructTyped(FieldAt(a).type)}

\* C19: during Get the traversal never looks up, resolves or assigns a
\* field inside a structure-typed field annotated with json, at any depth:
\* what the structure holds after the call is what the JSON decoder put
\* there.  (Fails: parse descends into the structure and resolves its
\* annotated fields.)
C19Claim ==
    /\ \A i \in DOMAIN trace :
          trace[i].op \in {"lookup", "alloc"} => JSONStructsAbove(trace[i].path) = {}
    /\ Done => \A i \in DOMAIN trace :
          (ResolvedAt(i) /\ TagAt(trace[i].path).JSON /\ StructTyped(FieldAt(trace[i].path).type))
              => SubStore(store, trace[i].path) = trace[i].after

(* ---------------------------------------------------------------------- *)
(* C20: NestedTags and the error of the nested call                       *)
(* ---------------------------------------------------------------------- *)

\* the fields that are structures, or pointers to them, and were reached
Descended == {trace[i].path : i \in {j \in DOMAIN trace :
                 trace[j].op = "extract" /\ StructTyped(FieldAt(trace[j].path).type)}}

\* the call of parse for the structure of the field at p reports an
\* annotated field: it extracted a valid annotation of one of its fields
SubFound(p) ==
    \E i \in DOMAIN trace :
       /\ trace[i].op = "extract"
       /\ Len(trace[i].path) = Len(p) + 1
       /\ IsPrefix(p, trace[i].path)
       /\ FieldAt(trace[i].path).tagged
       /\ parseTag(FieldAt(trace[i].path)).err = NoErr

\* the errors produced below the field at p
SubErrors(p) == {i \in Errors : IsPrefix(p, trace[i].path) /\ trace[i].path # p}

\* the error the call of parse for the structure of the field at p returned
SubError(p) == trace[CHOOSE i \in SubErrors(p) : \A j \in SubErrors(p) : j <= i].err

\* C20: when a field is annotated and the traversal of its structure both
\* reports an annotated field and produces an error, Get returns NestedTags
\* for the field and not that error; when the field is not annotated, or
\* no annotated field is reported, Get returns that error unchanged.
C20Claim ==
    Done => \A p \in Descended :
        SubErrors(p) # {} =>
            /\ result.status = "error"
            /\ result.err = IF FieldAt(p).tagged /\ SubFound(p) THEN NestedTagsOf(p)
                            ELSE SubError(p)

\* C20, amended: in these cases the call of parse that handles the field
\* returns NestedTags for the field, or the error unchanged, and Get fails;
\* Get returns what that call returned unless the field itself lies inside
\* an annotated structure field: then Get may return NestedTags naming an
\* enclosing annotated field instead.
C20Amended ==
    Done => \A p \in Descended :
        SubErrors(p) # {} =>
            /\ result.status = "error"
            /\ (FieldAt(p).tagged /\ SubFound(p)) =>
                  /\ \E i \in Errors : trace[i].path = p /\ trace[i].err = NestedTagsOf(p)
                  /\ \/ result.err = NestedTagsOf(p)
                     \/ \E a \in AnnotatedAncestors(p) : result.err = NestedTagsOf(a)
                  /\ AnnotatedAncestors(p) = {} => result.err = NestedTagsOf(p)
            /\ ~(FieldAt(p).tagged /\ SubFound(p)) =>
                  /\ \A i \in Errors : trace[i].path # p
                  /\ \/ result.err = SubError(p)
                     \/ \E a \in AnnotatedAncestors(p) : result.err = NestedTagsOf(a)
                  /\ AnnotatedAncestors(p) = {} => result.err = SubError(p)

\* Get has returned NestedTags for a field although the traversal of its
\* structure produced an error of another kind
C20Witness ==
    /\ Done /\ result.status = "error"
    /\ \E p \in Descended :
          /\ SubErrors(p) # {}
          /\ FieldAt(p).tagged /\ SubFound(p)
          /\ SubError(p).kind # "NestedTags"
          /\ result.err = NestedTagsOf(p)

(* ---------------------------------------------------------------------- *)
(* C21: termination                                                       *)
(* ---------------------------------------------------------------------- *)

\* C21: Get terminates on every record, also when a structure type refers
\* to itself through a pointer: the calls of parse never nest without
\* bound, and the traversal returns.  (Fails: for a pointer to a node of
\* the same type parse allocates the node and parses it, again and again.)
C21Claim == result.status # "overflow" /\ Len(stack) < MaxDepth

(* ---------------------------------------------------------------------- *)
(* C22: a field whose decoding or coercion fails                          *)
(* ---------------------------------------------------------------------- *)

\* the resolution of the field looked up at step i failed in the base64
\* stage or in the coercion
CoercionFailed(i) ==
    /\ trace[i].op = "lookup"
    /\ trace[i].found
    /\ ResolveFailed(i)
    /\ \/ trace[i + 1].err.kind \in {"CannotParseEnv", "Overflow", "CannotSetKind"}
       \/ trace[i + 1].err.kind = "DecodeFailure" /\ trace[i + 1].err.typ = "base64"

\* C22: a field whose resolution fails in the base64 stage or in the
\* coercion (DecodeFailure for base64, CannotParseEnv, Overflow,
\* CannotSetKind) holds after Get what it held before, whatever its type:
\* an empty pointer to a scalar stays empty, one that is not empty keeps
\* what it points to.  (Fails: the pointer is given new storage before the
\* value is coerced.)
C22Claim ==
    Done => \A i \in DOMAIN trace : CoercionFailed(i) => Unmodified(i)

=============================================================================
